---------------------------- MODULE Spec2Model ----------------------------
(***************************************************************************)
(* Model of the employee_tracker ingestion pipeline:                       *)
(*   src/src/page_reader.py          extraction helpers, write_data,       *)
(*                                   clean_up                              *)
(*   src/scripts/spreadsheet_manage.py   main(): the per-file loop         *)
(*   src/scripts/section_reader.py   the stand-alone section/firm script   *)
(*                                                                         *)
(* Text is a sequence of one-character strings, so that slicing, index()   *)
(* and the "in" test are computed as Python computes them.  A 0-based      *)
(* Python position p is position p + 1 of the sequence.                    *)
(***************************************************************************)
EXTENDS Integers, Sequences, FiniteSets, TLC

(***************************************************************************)
(* Text of the program: the markers and the canonical names used below.    *)
(***************************************************************************)
ForThePeriod == <<"F","o","r"," ","t","h","e"," ","p","e","r","i","o","d">>
EmployeeNumber == <<"E","m","p","l","o","y","e","e"," ","N","u","m","b","e","r",":">>
SectionMarker == <<"S","e","c","t","i","o","n",":">>
FinalTotals == <<"F","i","n","a","l"," ","T","o","t","a","l","s">>
actual_pct == <<"a","c","t","u","a","l","_","p","c","t">>
target_pct == <<"t","a","r","g","e","t","_","p","c","t">>
period_ending == <<"p","e","r","i","o","d","_","e","n","d","i","n","g">>
direct == <<"d","i","r","e","c","t">>
indirect == <<"i","n","d","i","r","e","c","t">>
hours == <<"h","o","u","r","s">>
total == <<"t","o","t","a","l">>

(***************************************************************************)
(* Python str operations.                                                  *)
(***************************************************************************)
\* s[a:] with a >= 0 (0-based): everything from position a on.
SliceFrom(s, a) == SubSeq(s, a + 1, Len(s))

\* s[a:b] with 0 <= a <= b (0-based, b exclusive), clipped to the text.
Slice(s, a, b) == SubSeq(s, a + 1, IF b < Len(s) THEN b ELSE Len(s))

\* sub in s
Contains(s, sub) ==
    \E i \in 1..(Len(s) - Len(sub) + 1) : SubSeq(s, i, i + Len(sub) - 1) = sub

\* s.index(c): 0-based position of the first c, or -1 where Python raises
\* ValueError.
IndexOf(s, c) ==
    IF \E i \in 1..Len(s) : s[i] = c
    THEN (CHOOSE i \in 1..Len(s) : s[i] = c /\ \A j \in 1..(i - 1) : s[j] # c) - 1
    ELSE -1

Whitespace == {" ", "\n", "\t", "\r"}

\* s.strip()
RECURSIVE LStrip(_)
LStrip(s) == IF s # <<>> /\ Head(s) \in Whitespace THEN LStrip(Tail(s)) ELSE s
RECURSIVE RStrip(_)
RStrip(s) ==
    IF s # <<>> /\ s[Len(s)] \in Whitespace
    THEN RStrip(SubSeq(s, 1, Len(s) - 1))
    ELSE s

\* Variant of Strip that trims nothing.
Strip_Nothing(s) == s

Strip(s) == RStrip(LStrip(s))

UpperCase == <<"A","B","C","D","E","F","G","H","I","J","K","L","M",
               "N","O","P","Q","R","S","T","U","V","W","X","Y","Z">>
LowerCase == <<"a","b","c","d","e","f","g","h","i","j","k","l","m",
               "n","o","p","q","r","s","t","u","v","w","x","y","z">>

\* s.lower()
Lower(s) ==
    [i \in 1..Len(s) |->
        IF \E k \in 1..26 : UpperCase[k] = s[i]
        THEN LowerCase[CHOOSE k \in 1..26 : UpperCase[k] = s[i]]
        ELSE s[i]]

\* s.replace(" ", "_")
ReplaceSpaces(s) == [i \in 1..Len(s) |-> IF s[i] = " " THEN "_" ELSE s[i]]

\* s.split(","): the pieces between the commas, in order.
RECURSIVE Split(_, _)
Split(s, c) ==
    LET p == IndexOf(s, c)
    IN  IF p < 0 THEN <<s>> ELSE <<Slice(s, 0, p)>> \o Split(SliceFrom(s, p + 1), c)

(***************************************************************************)
(* Cell values.  A spreadsheet cell is text, a number or empty (NaN); a    *)
(* number is the decimal n / 10^e with no trailing zero in n, so that      *)
(* 87.5 is Num(875, 1) and 0.875 is Num(875, 3).                           *)
(***************************************************************************)
NaN == [t |-> "nan", s |-> <<>>, n |-> 0, e |-> 0]
None == [t |-> "none", s |-> <<>>, n |-> 0, e |-> 0]
NaT == [t |-> "nat", s |-> <<>>, n |-> 0, e |-> 0]
Str(s) == [t |-> "str", s |-> s, n |-> 0, e |-> 0]
Date(m, d) == [t |-> "date", s |-> <<>>, n |-> m, e |-> d]

RECURSIVE Normal(_, _)
Normal(n, e) ==
    IF n = 0 THEN [t |-> "num", s |-> <<>>, n |-> 0, e |-> 0]
    ELSE IF e > 0 /\ n % 10 = 0 THEN Normal(n \div 10, e - 1)
    ELSE [t |-> "num", s |-> <<>>, n |-> n, e |-> e]
Num(n, e) == Normal(n, e)

\* pd.notna(val)
notna(v) == v.t # "nan"

\* A call either returns a value or raises.
Ok(v) == [err |-> "", val |-> v]
Raise(e) == [err |-> e, val |-> None]

(***************************************************************************)
(* Python dict: key/value pairs in insertion order; assigning to a key     *)
(* that is present keeps its place and replaces its value.                 *)
(***************************************************************************)
DictKeys(d) == [i \in 1..Len(d) |-> d[i][1]]
DictHas(d, k) == \E i \in 1..Len(d) : d[i][1] = k
DictGet(d, k) == d[CHOOSE i \in 1..Len(d) : d[i][1] = k][2]
\* Variant of DictSet that keeps the value a key already has.
DictSet_KeepFirst(d, k, v) ==
    IF DictHas(d, k) THEN d ELSE Append(d, <<k, v>>)

DictSet(d, k, v) ==
    IF DictHas(d, k)
    THEN [i \in 1..Len(d) |-> IF d[i][1] = k THEN <<k, v>> ELSE d[i]]
    ELSE Append(d, <<k, v>>)

(***************************************************************************)
(* pandas DataFrame: the index labels, the column names and one list of    *)
(* values per index label.                                                 *)
(***************************************************************************)
Frame(index, columns, data) == [index |-> index, columns |-> columns, data |-> data]

HasColumn(df, c) == \E k \in 1..Len(df.columns) : df.columns[k] = c
\* Position of the first column named c.
ColumnPos(df, c) ==
    CHOOSE k \in 1..Len(df.columns) :
        df.columns[k] = c /\ \A j \in 1..(k - 1) : df.columns[j] # c

\* df[c] = v for a scalar v: replaces the column when it exists, else adds
\* it as the last column.
SetColumn(df, c, v) ==
    IF HasColumn(df, c)
    THEN [df EXCEPT !.data =
            [r \in 1..Len(df.data) |->
                [k \in 1..Len(df.columns) |->
                    IF df.columns[k] = c THEN v ELSE df.data[r][k]]]]
    ELSE [df EXCEPT !.columns = Append(df.columns, c),
                    !.data = [r \in 1..Len(df.data) |-> Append(df.data[r], v)]]

\* pd.DataFrame.from_dict(d, orient='index', columns=cols): one row per key
\* of d.
from_dict(d, cols) ==
    Frame(DictKeys(d), cols, [r \in 1..Len(d) |-> d[r][2]])

\* df.rename(columns=mapping)
rename(df, mapping) ==
    [df EXCEPT !.columns =
        [k \in 1..Len(df.columns) |->
            IF DictHas(mapping, df.columns[k])
            THEN DictGet(mapping, df.columns[k])
            ELSE df.columns[k]]]

\* The rows of a frame as to_sql(index=True) writes them: the index label,
\* then the columns.
FrameRows(df) ==
    [r \in 1..Len(df.index) |->
        [key |-> df.index[r], columns |-> df.columns, vals |-> df.data[r]]]

\* The value a written row holds under column c.
Field(row, c) ==
    row.vals[CHOOSE k \in 1..Len(row.columns) :
                row.columns[k] = c /\ \A j \in 1..(k - 1) : row.columns[j] # c]
RowHas(row, c) == \E k \in 1..Len(row.columns) : row.columns[k] = c

(***************************************************************************)
(* pd.to_datetime on a period-end value: None gives no date; text of the   *)
(* form month/day (digits) gives that date; other text raises.             *)
(***************************************************************************)
Digits == <<"0","1","2","3","4","5","6","7","8","9">>
IsDigit(c) == \E k \in 1..10 : Digits[k] = c
DigitVal(c) == (CHOOSE k \in 1..10 : Digits[k] = c) - 1
IsNumber(s) == s # <<>> /\ \A i \in 1..Len(s) : IsDigit(s[i])
RECURSIVE IntOf(_)
IntOf(s) ==
    IF s = <<>> THEN 0
    ELSE 10 * IntOf(SubSeq(s, 1, Len(s) - 1)) + DigitVal(s[Len(s)])

to_datetime(v) ==
    IF v.t # "str" THEN Ok(NaT)
    ELSE LET parts == Split(Strip(v.s), "/")
         IN  IF /\ Len(parts) = 2
                /\ IsNumber(parts[1]) /\ IsNumber(parts[2])
                /\ IntOf(parts[1]) \in 1..12 /\ IntOf(parts[2]) \in 1..31
             THEN Ok(Date(IntOf(parts[1]), IntOf(parts[2])))
             ELSE Raise("DateParseError")

(***************************************************************************)
(* A page is what pd.read_excel returns: columns (the sheet's first row,   *)
(* as text) and rows (the remaining sheet rows; row i of Python is         *)
(* rows[i + 1]).                                                           *)
(***************************************************************************)
\* page.iloc[i] exists
HasRow(page, i) == i >= 0 /\ i < Len(page.rows)
\* page.iloc[i]
iloc(page, i) == page.rows[i + 1]
\* 'marker' in str(cell): str() of an empty or numeric cell holds no marker.
CellContains(cell, marker) == cell.t = "str" /\ Contains(cell.s, marker)

\* The vocabulary of roster pages: known header, canonical name.
EmployeeMapping ==
    <<
       << <<"T","a","r","g","e","t">>,
          target_pct >>,
       << <<"A","c","t","u","a","l">>,
          actual_pct >>,
       << <<"D","i","r","e","c","t">>,
          direct >>,
       << <<"T","r","g","t","\n","H","r","s">>,
          <<"t","a","r","g","e","t","_","h","r","s">> >>,
       << <<"I","n","d","i","r","e","c","t">>,
          indirect >>,
       << <<"H","o","l">>,
          <<"h","o","l","i","d","a","y">> >>,
       << <<"P","P","L">>,
          <<"p","a","i","d","_","p","e","r","s","o","n","a","l","_","l","e","a","v","e">> >>,
       << <<"A","d","m","i","n">>,
          <<"a","d","m","i","n">> >>,
       << <<"M","k","t","g">>,
          <<"m","a","r","k","e","t","i","n","g">> >>,
       << <<"B","D">>,
          <<"b","u","s","i","n","e","s","s","_","d","e","v","e","l","o","p","m","e","n","t">> >>,
       << <<"P","r","o","p">>,
          <<"p","r","o","p","o","s","a","l">> >>,
       << <<"T","D">>,
          <<"t","e","c","h","_","d","e","v","e","l","o","p","m","e","n","t">> >>,
       << <<"U","P","L","/","P","T","L">>,
          <<"u","p","l","_","p","t","l">> >>,
       << <<"H","o","u","r","s">>,
          hours >>,
       << <<"S","t","a","n","d">>,
          <<"s","t","a","n","d","a","r","d">> >>
    >>

\* The vocabulary of firm pages: known header, canonical name.
FirmMapping ==
    <<
       << <<"T","a","r","g","e","t","\n","%">>,
          target_pct >>,
       << <<"A","c","t","u","a","l","\n","%">>,
          actual_pct >>,
       << <<"D","i","r","e","c","t">>,
          direct >>,
       << <<"T","a","r","g","e","t">>,
          <<"t","a","r","g","e","t","_","h","r","s">> >>,
       << <<"I","n","d","i","r","e","c","t">>,
          indirect >>,
       << <<"H","o","l">>,
          <<"h","o","l","i","d","a","y">> >>,
       << <<"P","P","L">>,
          <<"p","a","i","d","_","p","e","r","s","o","n","a","l","_","l","e","a","v","e">> >>,
       << <<"A","d","m","i","n">>,
          <<"a","d","m","i","n">> >>,
       << <<"M","k","t","g">>,
          <<"m","a","r","k","e","t","i","n","g">> >>,
       << <<"B","D">>,
          <<"b","u","s","i","n","e","s","s","_","d","e","v","e","l","o","p","m","e","n","t">> >>,
       << <<"P","r","o","p">>,
          <<"p","r","o","p","o","s","a","l">> >>,
       << <<"T","D">>,
          <<"t","e","c","h","_","d","e","v","e","l","o","p","m","e","n","t">> >>,
       << <<"U","P","L","/","P","T","L">>,
          <<"u","p","l","_","p","t","l">> >>,
       << <<"T","o","t","a","l">>,
          total >>,
       << <<"S","t","d">>,
          <<"s","t","a","n","d","a","r","d">> >>
    >>

\* val.strip().lower().replace(" ", "_")
Slug(s) == ReplaceSpaces(Lower(Strip(s)))

\* mapping.get(val, val.strip().lower().replace(" ", "_"))
Standardize(mapping, val) ==
    IF DictHas(mapping, val) THEN DictGet(mapping, val) ELSE Slug(val)

\* The loop over enumerate(column_names), from position i (0-based) on.
\* The default of mapping.get is evaluated for every non-null cell, so a
\* non-null cell that is not text raises.
RECURSIVE ResolveColumns(_, _, _, _)
ResolveColumns(column_names, mapping, i, col_name_idx) ==
    IF i >= Len(column_names) THEN Ok(col_name_idx)
    ELSE LET val == column_names[i + 1]
         IN  IF ~notna(val)
             THEN ResolveColumns(column_names, mapping, i + 1, col_name_idx)
             ELSE IF val.t # "str" THEN Raise("AttributeError")
             ELSE ResolveColumns(column_names, mapping, i + 1,
                                 DictSet(col_name_idx, Standardize(mapping, val.s), i))

get_columns(page) ==
    IF ~HasRow(page, 0) THEN Raise("IndexError")
    ELSE ResolveColumns(iloc(page, 0), EmployeeMapping, 0, <<>>)

FirmHeaderRow == 7

get_firm_columns(page) ==
    IF ~HasRow(page, FirmHeaderRow) THEN Raise("IndexError")
    ELSE ResolveColumns(iloc(page, FirmHeaderRow), FirmMapping, 0, <<>>)

\* The loop over page.columns from position i (1-based) on.
RECURSIVE get_pay_period_from(_, _)
get_pay_period_from(columns, i) ==
    IF i > Len(columns) THEN Ok(None)
    ELSE IF Contains(columns[i], ForThePeriod)
         THEN LET period_idx == IndexOf(columns[i], "-")
              IN  IF period_idx < 0 THEN Raise("ValueError")
                  ELSE Ok(Str(SliceFrom(columns[i], period_idx + 2)))
         ELSE get_pay_period_from(columns, i + 1)

get_pay_period(page) == get_pay_period_from(page.columns, 1)

\* The first text cell of a row that holds the marker, or 0.
FirstPeriodCell(row) ==
    IF \E k \in 1..Len(row) : CellContains(row[k], ForThePeriod)
    THEN CHOOSE k \in 1..Len(row) :
            /\ CellContains(row[k], ForThePeriod)
            /\ \A j \in 1..(k - 1) : ~CellContains(row[j], ForThePeriod)
    ELSE 0

\* The function's break leaves the inner loop only and the function has no
\* return statement: every row's first matching cell is sliced, and the
\* call returns None (or raises when a matching cell holds no hyphen).
get_firm_pay_period(page) ==
    IF \E r \in 1..Len(page.rows) :
          /\ FirstPeriodCell(page.rows[r]) # 0
          /\ IndexOf(page.rows[r][FirstPeriodCell(page.rows[r])].s, "-") < 0
    THEN Raise("ValueError")
    ELSE Ok(None)

\* The loop of get_employees from row idx (0-based) on; acc holds
\* employee_rows and employee_data.
RECURSIVE get_employees_from(_, _, _)
get_employees_from(page, idx, acc) ==
    IF idx >= Len(page.rows) THEN Ok(acc)
    ELSE LET cell == iloc(page, idx)[1]
         IN  IF ~CellContains(cell, EmployeeNumber)
             THEN get_employees_from(page, idx + 1, acc)
             ELSE LET colon == IndexOf(cell.s, ":")
                      employee_name == SliceFrom(cell.s, colon + 7)
                      number == Slice(cell.s, colon + 2, colon + 6)
                      parts == Split(employee_name, ",")
                  IN  IF Len(parts) # 2 THEN Raise("ValueError")
                      ELSE get_employees_from(page, idx + 1,
                             [employee_rows |-> DictSet(acc.employee_rows, number, idx),
                              employee_data |->
                                 DictSet(acc.employee_data, number,
                                         << Str(Strip(employee_name)), Str(Strip(parts[1])),
                                            Str(Strip(parts[2])), Str(number) >>)])

EmployeeColumns == << <<"n","a","m","e">>, <<"l","a","s","t">>, <<"f","i","r","s","t">>,
                      <<"e","m","p","l","o","y","e","e","_","n","u","m","b","e","r">> >>

\* Returns employee_rows and employee_df.
get_employees(page) ==
    LET r == get_employees_from(page, 0, [employee_rows |-> <<>>, employee_data |-> <<>>])
    IN  IF r.err # "" THEN r
        ELSE Ok([employee_rows |-> r.val.employee_rows,
                 employee_df |-> from_dict(r.val.employee_data, EmployeeColumns)])

RECURSIVE get_sections_from(_, _, _)
get_sections_from(page, idx, section_rows) ==
    IF idx >= Len(page.rows) THEN section_rows
    ELSE LET cell == iloc(page, idx)[1]
         IN  IF ~CellContains(cell, SectionMarker)
             THEN get_sections_from(page, idx + 1, section_rows)
             ELSE LET colon == IndexOf(cell.s, ":")
                      section_name == SliceFrom(cell.s, colon + 2)
                  IN  get_sections_from(page, idx + 1,
                                        DictSet(section_rows, section_name, idx))

\* Returns section_rows (section_df is not used by main).
get_sections(page) == Ok(get_sections_from(page, 0, <<>>))

\* Variant of get_firm_totals without the break: the last matching row.
get_firm_totals_Last(page) ==
    IF \E r \in 1..Len(page.rows) : CellContains(page.rows[r][1], FinalTotals)
    THEN Ok((CHOOSE r \in 1..Len(page.rows) :
                /\ CellContains(page.rows[r][1], FinalTotals)
                /\ \A q \in (r + 1)..Len(page.rows) :
                      ~CellContains(page.rows[q][1], FinalTotals)) - 1)
    ELSE Raise("UnboundLocalError")

\* The first row whose first cell holds 'Final Totals'; company_row is
\* unbound when no row matches, and returning it raises.
get_firm_totals(page) ==
    IF \E r \in 1..Len(page.rows) : CellContains(page.rows[r][1], FinalTotals)
    THEN Ok((CHOOSE r \in 1..Len(page.rows) :
                /\ CellContains(page.rows[r][1], FinalTotals)
                /\ \A q \in 1..(r - 1) : ~CellContains(page.rows[q][1], FinalTotals)) - 1)
    ELSE Raise("UnboundLocalError")

(***************************************************************************)
(* Entity blocks: the three rows below a label row.                        *)
(***************************************************************************)
\* The dict the block loops build for the rows at label row + offset: one
\* list per entity, holding the cell of each mapped column.  A key is
\* created by the first append, so no column means no key.
BlockDict(page, label_rows, col_name_idx, offset) ==
    IF Len(col_name_idx) = 0 THEN <<>>
    ELSE [i \in 1..Len(label_rows) |->
            << label_rows[i][1],
               [k \in 1..Len(col_name_idx) |->
                   iloc(page, label_rows[i][2] + offset)[col_name_idx[k][2] + 1]] >>]

\* page.iloc[idx + 1], page.iloc[idx + 2] and page.iloc[idx + 3] exist for
\* every label row idx.
BlocksInPage(page, label_rows) ==
    \A i \in 1..Len(label_rows) : HasRow(page, label_rows[i][2] + 3)

\* Variant of Div100 that leaves the cell as it is: the division forgotten.
Div100_Forgotten(v) == v

\* x / 100. on one cell
Div100(v) == IF v.t = "num" THEN Num(v.n, v.e + 2) ELSE v

\* week_df.loc[:, 'actual_pct'] = week_df['actual_pct'] / 100.
ScaleActualPct(df) ==
    LET c == ColumnPos(df, actual_pct)
    IN  [df EXCEPT !.data =
            [r \in 1..Len(df.data) |->
                [k \in 1..Len(df.columns) |->
                    IF k = c THEN Div100(df.data[r][k]) ELSE df.data[r][k]]]]

\* Variant of WithPeriod that attaches no date: period_ending left empty.
WithPeriod_Undated(week_df, mtd_df, ytd_df, when) ==
    [week |-> SetColumn(week_df, period_ending, NaT),
     mtd |-> SetColumn(mtd_df, period_ending, NaT),
     ytd |-> SetColumn(ytd_df, period_ending, NaT)]

\* The three frames of one entity kind with period_ending attached.
WithPeriod(week_df, mtd_df, ytd_df, when) ==
    [week |-> SetColumn(week_df, period_ending, when),
     mtd |-> SetColumn(mtd_df, period_ending, when),
     ytd |-> SetColumn(ytd_df, period_ending, when)]

get_employee_data(page, period_end, employee_rows, col_name_idx) ==
    IF ~BlocksInPage(page, employee_rows) THEN Raise("IndexError")
    ELSE LET cols == DictKeys(col_name_idx)
             week_df == from_dict(BlockDict(page, employee_rows, col_name_idx, 1), cols)
             mtd_df == from_dict(BlockDict(page, employee_rows, col_name_idx, 2), cols)
             ytd_df == from_dict(BlockDict(page, employee_rows, col_name_idx, 3), cols)
             when == to_datetime(period_end)
         IN  IF ~HasColumn(week_df, actual_pct) THEN Raise("KeyError")
             ELSE IF \E r \in 1..Len(week_df.data) :
                        week_df.data[r][ColumnPos(week_df, actual_pct)].t = "str"
                  THEN Raise("TypeError")
             ELSE IF when.err # "" THEN when
             ELSE Ok(WithPeriod(ScaleActualPct(week_df), mtd_df, ytd_df, when.val))

get_section_data(page, period_end, section_rows, col_name_idx) ==
    IF ~BlocksInPage(page, section_rows) THEN Raise("IndexError")
    ELSE LET cols == DictKeys(col_name_idx)
             section_week_df == from_dict(BlockDict(page, section_rows, col_name_idx, 1), cols)
             section_mtd_df == from_dict(BlockDict(page, section_rows, col_name_idx, 2), cols)
             section_ytd_df == from_dict(BlockDict(page, section_rows, col_name_idx, 3), cols)
             when == to_datetime(period_end)
         IN  IF when.err # "" THEN when
             ELSE Ok(WithPeriod(section_week_df, section_mtd_df, section_ytd_df, when.val))

\* The firm block: one entity, keyed by period_end, labelled by company_row.
get_firm_data(page, period_end, company_row, col_name_idx) ==
    IF ~HasRow(page, company_row + 3) THEN Raise("IndexError")
    ELSE LET cols == DictKeys(col_name_idx)
             firm == << <<period_end, company_row>> >>
             firm_week_df == from_dict(BlockDict(page, firm, col_name_idx, 1), cols)
             firm_mtd_df == from_dict(BlockDict(page, firm, col_name_idx, 2), cols)
             firm_ytd_df == from_dict(BlockDict(page, firm, col_name_idx, 3), cols)
             when == to_datetime(period_end)
         IN  IF when.err # "" THEN when
             ELSE Ok(WithPeriod(firm_week_df, firm_mtd_df, firm_ytd_df, when.val))

(***************************************************************************)
(* The body of main's loop up to the call of write_data: the two pages of  *)
(* a sheet are read and every extraction call is made in the order of the  *)
(* script; the first call that raises ends main.                           *)
(***************************************************************************)
Failed(at, r) == [err |-> r.err, at |-> at]

Extract(sheet) ==
    LET employee_page == sheet.employee_page
        util_page == sheet.util_page
        emp_col_name_idx == get_columns(employee_page)
        util_col_name_idx == get_firm_columns(util_page)
        period_end == get_pay_period(employee_page)
        firm_period_end == get_firm_pay_period(util_page)
        firm_row == get_firm_totals(util_page)
        employees == get_employees(employee_page)
        section_rows == get_sections(util_page)
        emp == get_employee_data(employee_page, period_end.val,
                                 employees.val.employee_rows, emp_col_name_idx.val)
        sec == get_section_data(util_page, period_end.val, section_rows.val,
                                util_col_name_idx.val)
        firm == get_firm_data(util_page, period_end.val, firm_row.val,
                              util_col_name_idx.val)
    IN  IF emp_col_name_idx.err # "" THEN Failed("get_columns", emp_col_name_idx)
        ELSE IF util_col_name_idx.err # "" THEN Failed("get_firm_columns", util_col_name_idx)
        ELSE IF period_end.err # "" THEN Failed("get_pay_period", period_end)
        ELSE IF firm_period_end.err # "" THEN Failed("get_firm_pay_period", firm_period_end)
        ELSE IF firm_row.err # "" THEN Failed("get_firm_totals", firm_row)
        ELSE IF employees.err # "" THEN Failed("get_employees", employees)
        ELSE IF section_rows.err # "" THEN Failed("get_sections", section_rows)
        ELSE IF emp.err # "" THEN Failed("get_employee_data", emp)
        ELSE IF sec.err # "" THEN Failed("get_section_data", sec)
        ELSE IF firm.err # "" THEN Failed("get_firm_data", firm)
        ELSE [err |-> "", at |-> "",
              period_end |-> period_end.val,
              employee_df |-> employees.val.employee_df,
              emp_week_df |-> emp.val.week, emp_mtd_df |-> emp.val.mtd,
              emp_ytd_df |-> emp.val.ytd,
              sec_week_df |-> sec.val.week, sec_mtd_df |-> sec.val.mtd,
              sec_ytd_df |-> sec.val.ytd,
              firm_week_df |-> firm.val.week, firm_mtd_df |-> firm.val.mtd,
              firm_ytd_df |-> firm.val.ytd]

(***************************************************************************)
(* The sheets the intake directory receives: for each file the roster page *)
(* ('Mekong - Fisheries Aquatic') and the firm page ('$ Utilization') as   *)
(* pd.read_excel returns them.  All sheets have one layout, as the reports *)
(* of one system do, so every append fits the columns of its table.        *)
(***************************************************************************)
\* Week ending 1/7: one employee; the weekly and the month-to-date Actual are both 87.5.
Roster1 ==
    [columns |-> << <<"F","o","r"," ","t","h","e"," ","p","e","r","i","o","d"," ","1","/","1"," ","-"," ","1","/","7">>, <<"U","n","n","a","m","e","d",":"," ","1">>, <<"U","n","n","a","m","e","d",":"," ","2">>, <<"U","n","n","a","m","e","d",":"," ","3">> >>,
     rows |-> <<
        << NaN, Str(<<"T","a","r","g","e","t">>), Str(<<"A","c","t","u","a","l">>), Str(<<"D","i","r","e","c","t","\n","H","o","u","r","s">>) >>,
        << Str(<<"E","m","p","l","o","y","e","e"," ","N","u","m","b","e","r",":"," ","1","0","0","1"," ","D","o","e",","," ","J","a","n","e">>), NaN, NaN, NaN >>,
        << NaN, Num(80, 0), Num(875, 1), Num(35, 0) >>,
        << NaN, Num(80, 0), Num(875, 1), Num(36, 0) >>,
        << NaN, Num(80, 0), Num(9025, 2), Num(37, 0) >> >>]

\* Week ending 1/7: one section and the firm totals.
Summary1 ==
    [columns |-> << <<"U","n","n","a","m","e","d",":"," ","0">>, <<"U","n","n","a","m","e","d",":"," ","1">>, <<"U","n","n","a","m","e","d",":"," ","2">>, <<"U","n","n","a","m","e","d",":"," ","3">> >>,
     rows |-> <<
        << Str(<<"F","o","r"," ","t","h","e"," ","p","e","r","i","o","d"," ","1","/","1"," ","-"," ","1","/","7">>), NaN, NaN, NaN >>,
        << NaN, NaN, NaN, NaN >>,
        << NaN, NaN, NaN, NaN >>,
        << NaN, NaN, NaN, NaN >>,
        << NaN, NaN, NaN, NaN >>,
        << NaN, NaN, NaN, NaN >>,
        << NaN, NaN, NaN, NaN >>,
        << NaN, Str(<<"T","a","r","g","e","t","\n","%">>), Str(<<"A","c","t","u","a","l","\n","%">>), Str(<<"T","o","t","a","l","\n","A","m","o","u","n","t">>) >>,
        << Str(<<"S","e","c","t","i","o","n",":"," ","M","e","k","o","n","g">>), NaN, NaN, NaN >>,
        << NaN, Num(75, 0), Num(715, 1), Num(510, 0) >>,
        << NaN, Num(75, 0), Num(72, 0), Num(520, 0) >>,
        << NaN, Num(75, 0), Num(73, 0), Num(530, 0) >>,
        << Str(<<"F","i","n","a","l"," ","T","o","t","a","l","s">>), NaN, NaN, NaN >>,
        << NaN, Num(70, 0), Num(61, 0), Num(810, 0) >>,
        << NaN, Num(70, 0), Num(62, 0), Num(820, 0) >>,
        << NaN, Num(70, 0), Num(63, 0), Num(830, 0) >> >>]

\* Week ending 1/14: employee 1001 again and employee 1002 newly.
Roster2 ==
    [columns |-> << <<"F","o","r"," ","t","h","e"," ","p","e","r","i","o","d"," ","1","/","8"," ","-"," ","1","/","1","4">>, <<"U","n","n","a","m","e","d",":"," ","1">>, <<"U","n","n","a","m","e","d",":"," ","2">>, <<"U","n","n","a","m","e","d",":"," ","3">> >>,
     rows |-> <<
        << NaN, Str(<<"T","a","r","g","e","t">>), Str(<<"A","c","t","u","a","l">>), Str(<<"D","i","r","e","c","t","\n","H","o","u","r","s">>) >>,
        << Str(<<"E","m","p","l","o","y","e","e"," ","N","u","m","b","e","r",":"," ","1","0","0","1"," ","D","o","e",","," ","J","a","n","e">>), NaN, NaN, NaN >>,
        << NaN, Num(80, 0), Num(91, 0), Num(32, 0) >>,
        << NaN, Num(80, 0), Num(89, 0), Num(64, 0) >>,
        << NaN, Num(80, 0), Num(90, 0), Num(96, 0) >>,
        << Str(<<"E","m","p","l","o","y","e","e"," ","N","u","m","b","e","r",":"," ","1","0","0","2"," ","R","o","e",","," ","R","i","c","k">>), NaN, NaN, NaN >>,
        << NaN, Num(85, 0), Num(50, 0), Num(20, 0) >>,
        << NaN, Num(85, 0), Num(555, 1), Num(41, 0) >>,
        << NaN, Num(85, 0), Num(60, 0), Num(62, 0) >> >>]

\* Week ending 1/14: two sections and the firm totals.
Summary2 ==
    [columns |-> << <<"U","n","n","a","m","e","d",":"," ","0">>, <<"U","n","n","a","m","e","d",":"," ","1">>, <<"U","n","n","a","m","e","d",":"," ","2">>, <<"U","n","n","a","m","e","d",":"," ","3">> >>,
     rows |-> <<
        << Str(<<"F","o","r"," ","t","h","e"," ","p","e","r","i","o","d"," ","1","/","8"," ","-"," ","1","/","1","4">>), NaN, NaN, NaN >>,
        << NaN, NaN, NaN, NaN >>,
        << NaN, NaN, NaN, NaN >>,
        << NaN, NaN, NaN, NaN >>,
        << NaN, NaN, NaN, NaN >>,
        << NaN, NaN, NaN, NaN >>,
        << NaN, NaN, NaN, NaN >>,
        << NaN, Str(<<"T","a","r","g","e","t","\n","%">>), Str(<<"A","c","t","u","a","l","\n","%">>), Str(<<"T","o","t","a","l","\n","A","m","o","u","n","t">>) >>,
        << Str(<<"S","e","c","t","i","o","n",":"," ","M","e","k","o","n","g">>), NaN, NaN, NaN >>,
        << NaN, Num(75, 0), Num(81, 0), Num(500, 0) >>,
        << NaN, Num(75, 0), Num(82, 0), Num(900, 0) >>,
        << NaN, Num(75, 0), Num(83, 0), Num(950, 0) >>,
        << Str(<<"S","e","c","t","i","o","n",":"," ","D","e","l","t","a">>), NaN, NaN, NaN >>,
        << NaN, Num(65, 0), Num(51, 0), Num(300, 0) >>,
        << NaN, Num(65, 0), Num(52, 0), Num(600, 0) >>,
        << NaN, Num(65, 0), Num(53, 0), Num(650, 0) >>,
        << Str(<<"F","i","n","a","l"," ","T","o","t","a","l","s">>), NaN, NaN, NaN >>,
        << NaN, Num(70, 0), Num(66, 0), Num(800, 0) >>,
        << NaN, Num(70, 0), Num(67, 0), Num(1500, 0) >>,
        << NaN, Num(70, 0), Num(68, 0), Num(1600, 0) >> >>]

\* A corrected re-export of the week ending 1/7 (the date written 01/07).
Roster3 ==
    [columns |-> << <<"F","o","r"," ","t","h","e"," ","p","e","r","i","o","d"," ","0","1","/","0","1"," ","-"," ","0","1","/","0","7">>, <<"U","n","n","a","m","e","d",":"," ","1">>, <<"U","n","n","a","m","e","d",":"," ","2">>, <<"U","n","n","a","m","e","d",":"," ","3">> >>,
     rows |-> <<
        << NaN, Str(<<"T","a","r","g","e","t">>), Str(<<"A","c","t","u","a","l">>), Str(<<"D","i","r","e","c","t","\n","H","o","u","r","s">>) >>,
        << Str(<<"E","m","p","l","o","y","e","e"," ","N","u","m","b","e","r",":"," ","1","0","0","1"," ","D","o","e",","," ","J","a","n","e">>), NaN, NaN, NaN >>,
        << NaN, Num(80, 0), Num(88, 0), Num(34, 0) >>,
        << NaN, Num(80, 0), Num(88, 0), Num(36, 0) >>,
        << NaN, Num(80, 0), Num(905, 1), Num(37, 0) >> >>]

\* The summary of the corrected re-export.
Summary3 ==
    [columns |-> << <<"U","n","n","a","m","e","d",":"," ","0">>, <<"U","n","n","a","m","e","d",":"," ","1">>, <<"U","n","n","a","m","e","d",":"," ","2">>, <<"U","n","n","a","m","e","d",":"," ","3">> >>,
     rows |-> <<
        << Str(<<"F","o","r"," ","t","h","e"," ","p","e","r","i","o","d"," ","0","1","/","0","1"," ","-"," ","0","1","/","0","7">>), NaN, NaN, NaN >>,
        << NaN, NaN, NaN, NaN >>,
        << NaN, NaN, NaN, NaN >>,
        << NaN, NaN, NaN, NaN >>,
        << NaN, NaN, NaN, NaN >>,
        << NaN, NaN, NaN, NaN >>,
        << NaN, NaN, NaN, NaN >>,
        << NaN, Str(<<"T","a","r","g","e","t","\n","%">>), Str(<<"A","c","t","u","a","l","\n","%">>), Str(<<"T","o","t","a","l","\n","A","m","o","u","n","t">>) >>,
        << Str(<<"S","e","c","t","i","o","n",":"," ","M","e","k","o","n","g">>), NaN, NaN, NaN >>,
        << NaN, Num(75, 0), Num(725, 1), Num(515, 0) >>,
        << NaN, Num(75, 0), Num(72, 0), Num(520, 0) >>,
        << NaN, Num(75, 0), Num(73, 0), Num(530, 0) >>,
        << Str(<<"F","i","n","a","l"," ","T","o","t","a","l","s">>), NaN, NaN, NaN >>,
        << NaN, Num(70, 0), Num(64, 0), Num(815, 0) >>,
        << NaN, Num(70, 0), Num(62, 0), Num(820, 0) >>,
        << NaN, Num(70, 0), Num(63, 0), Num(830, 0) >> >>]

\* A roster whose header lacks 'For the period' and whose label lacks
\* 'Employee Number:'.
Roster4 ==
    [columns |-> << <<"U","t","i","l","i","z","a","t","i","o","n"," ","r","e","p","o","r","t">>, <<"U","n","n","a","m","e","d",":"," ","1">>, <<"U","n","n","a","m","e","d",":"," ","2">>, <<"U","n","n","a","m","e","d",":"," ","3">> >>,
     rows |-> <<
        << NaN, Str(<<"T","a","r","g","e","t">>), Str(<<"A","c","t","u","a","l">>), Str(<<"D","i","r","e","c","t","\n","H","o","u","r","s">>) >>,
        << Str(<<"S","t","a","f","f"," ","1","0","0","3"," ","P","o","e",","," ","P","a","t">>), NaN, NaN, NaN >>,
        << NaN, Num(80, 0), Num(70, 0), Num(28, 0) >>,
        << NaN, Num(80, 0), Num(71, 0), Num(29, 0) >>,
        << NaN, Num(80, 0), Num(72, 0), Num(30, 0) >> >>]

\* The summary of that report.
Summary4 ==
    [columns |-> << <<"U","n","n","a","m","e","d",":"," ","0">>, <<"U","n","n","a","m","e","d",":"," ","1">>, <<"U","n","n","a","m","e","d",":"," ","2">>, <<"U","n","n","a","m","e","d",":"," ","3">> >>,
     rows |-> <<
        << Str(<<"U","t","i","l","i","z","a","t","i","o","n"," ","r","e","p","o","r","t">>), NaN, NaN, NaN >>,
        << NaN, NaN, NaN, NaN >>,
        << NaN, NaN, NaN, NaN >>,
        << NaN, NaN, NaN, NaN >>,
        << NaN, NaN, NaN, NaN >>,
        << NaN, NaN, NaN, NaN >>,
        << NaN, NaN, NaN, NaN >>,
        << NaN, Str(<<"T","a","r","g","e","t","\n","%">>), Str(<<"A","c","t","u","a","l","\n","%">>), Str(<<"T","o","t","a","l","\n","A","m","o","u","n","t">>) >>,
        << Str(<<"S","e","c","t","i","o","n",":"," ","M","e","k","o","n","g">>), NaN, NaN, NaN >>,
        << NaN, Num(75, 0), Num(41, 0), Num(410, 0) >>,
        << NaN, Num(75, 0), Num(42, 0), Num(420, 0) >>,
        << NaN, Num(75, 0), Num(43, 0), Num(430, 0) >>,
        << Str(<<"F","i","n","a","l"," ","T","o","t","a","l","s">>), NaN, NaN, NaN >>,
        << NaN, Num(70, 0), Num(44, 0), Num(440, 0) >>,
        << NaN, Num(70, 0), Num(45, 0), Num(450, 0) >>,
        << NaN, Num(70, 0), Num(46, 0), Num(460, 0) >> >>]

\* Week ending 1/28: one employee.
Roster5 ==
    [columns |-> << <<"F","o","r"," ","t","h","e"," ","p","e","r","i","o","d"," ","1","/","2","2"," ","-"," ","1","/","2","8">>, <<"U","n","n","a","m","e","d",":"," ","1">>, <<"U","n","n","a","m","e","d",":"," ","2">>, <<"U","n","n","a","m","e","d",":"," ","3">> >>,
     rows |-> <<
        << NaN, Str(<<"T","a","r","g","e","t">>), Str(<<"A","c","t","u","a","l">>), Str(<<"D","i","r","e","c","t","\n","H","o","u","r","s">>) >>,
        << Str(<<"E","m","p","l","o","y","e","e"," ","N","u","m","b","e","r",":"," ","1","0","0","2"," ","R","o","e",","," ","R","i","c","k">>), NaN, NaN, NaN >>,
        << NaN, Num(85, 0), Num(30, 0), Num(11, 0) >>,
        << NaN, Num(85, 0), Num(31, 0), Num(12, 0) >>,
        << NaN, Num(85, 0), Num(32, 0), Num(13, 0) >> >>]

\* A summary with no 'Final Totals' row.
Summary5 ==
    [columns |-> << <<"U","n","n","a","m","e","d",":"," ","0">>, <<"U","n","n","a","m","e","d",":"," ","1">>, <<"U","n","n","a","m","e","d",":"," ","2">>, <<"U","n","n","a","m","e","d",":"," ","3">> >>,
     rows |-> <<
        << Str(<<"F","o","r"," ","t","h","e"," ","p","e","r","i","o","d"," ","1","/","2","2"," ","-"," ","1","/","2","8">>), NaN, NaN, NaN >>,
        << NaN, NaN, NaN, NaN >>,
        << NaN, NaN, NaN, NaN >>,
        << NaN, NaN, NaN, NaN >>,
        << NaN, NaN, NaN, NaN >>,
        << NaN, NaN, NaN, NaN >>,
        << NaN, NaN, NaN, NaN >>,
        << NaN, Str(<<"T","a","r","g","e","t","\n","%">>), Str(<<"A","c","t","u","a","l","\n","%">>), Str(<<"T","o","t","a","l","\n","A","m","o","u","n","t">>) >>,
        << Str(<<"S","e","c","t","i","o","n",":"," ","M","e","k","o","n","g">>), NaN, NaN, NaN >>,
        << NaN, Num(75, 0), Num(21, 0), Num(210, 0) >>,
        << NaN, Num(75, 0), Num(22, 0), Num(220, 0) >>,
        << NaN, Num(75, 0), Num(23, 0), Num(230, 0) >>,
        << Str(<<"G","r","a","n","d"," ","T","o","t","a","l","s">>), NaN, NaN, NaN >>,
        << NaN, Num(70, 0), Num(24, 0), Num(240, 0) >>,
        << NaN, Num(70, 0), Num(25, 0), Num(250, 0) >>,
        << NaN, Num(70, 0), Num(26, 0), Num(260, 0) >> >>]

\* Week ending 2/4 from a report without the 'Actual' column: the Column
\* Resolver gives target_pct, billable and direct hours, and no actual_pct.
Roster6 ==
    [columns |-> << <<"F","o","r"," ","t","h","e"," ","p","e","r","i","o","d"," ","1","/","2","9"," ","-"," ","2","/","4">>, <<"U","n","n","a","m","e","d",":"," ","1">>, <<"U","n","n","a","m","e","d",":"," ","2">>, <<"U","n","n","a","m","e","d",":"," ","3">> >>,
     rows |-> <<
        << NaN, Str(<<"T","a","r","g","e","t">>), Str(<<"B","i","l","l","a","b","l","e">>), Str(<<"D","i","r","e","c","t","\n","H","o","u","r","s">>) >>,
        << Str(<<"E","m","p","l","o","y","e","e"," ","N","u","m","b","e","r",":"," ","1","0","0","1"," ","D","o","e",","," ","J","a","n","e">>), NaN, NaN, NaN >>,
        << NaN, Num(80, 0), Num(77, 0), Num(30, 0) >>,
        << NaN, Num(80, 0), Num(78, 0), Num(31, 0) >>,
        << NaN, Num(80, 0), Num(79, 0), Num(32, 0) >> >>]

\* The summary of that week.
Summary6 ==
    [columns |-> << <<"U","n","n","a","m","e","d",":"," ","0">>, <<"U","n","n","a","m","e","d",":"," ","1">>, <<"U","n","n","a","m","e","d",":"," ","2">>, <<"U","n","n","a","m","e","d",":"," ","3">> >>,
     rows |-> <<
        << Str(<<"F","o","r"," ","t","h","e"," ","p","e","r","i","o","d"," ","1","/","2","9"," ","-"," ","2","/","4">>), NaN, NaN, NaN >>,
        << NaN, NaN, NaN, NaN >>,
        << NaN, NaN, NaN, NaN >>,
        << NaN, NaN, NaN, NaN >>,
        << NaN, NaN, NaN, NaN >>,
        << NaN, NaN, NaN, NaN >>,
        << NaN, NaN, NaN, NaN >>,
        << NaN, Str(<<"T","a","r","g","e","t","\n","%">>), Str(<<"A","c","t","u","a","l","\n","%">>), Str(<<"T","o","t","a","l","\n","A","m","o","u","n","t">>) >>,
        << Str(<<"S","e","c","t","i","o","n",":"," ","M","e","k","o","n","g">>), NaN, NaN, NaN >>,
        << NaN, Num(75, 0), Num(61, 0), Num(610, 0) >>,
        << NaN, Num(75, 0), Num(62, 0), Num(620, 0) >>,
        << NaN, Num(75, 0), Num(63, 0), Num(630, 0) >>,
        << Str(<<"F","i","n","a","l"," ","T","o","t","a","l","s">>), NaN, NaN, NaN >>,
        << NaN, Num(70, 0), Num(64, 0), Num(640, 0) >>,
        << NaN, Num(70, 0), Num(65, 0), Num(650, 0) >>,
        << NaN, Num(70, 0), Num(66, 0), Num(660, 0) >> >>]

Files == {"f1", "f2", "f3", "f4", "f5"}

\* A well-formed file and a file whose roster has no 'Actual' column.
MetricFiles == {"f1", "f6"}

\* pd.read_excel(sheet_path, sheet_name = ...) for both pages of a file.
read_excel(sheet) ==
    CASE sheet = "f1" -> [employee_page |-> Roster1, util_page |-> Summary1]
      [] sheet = "f2" -> [employee_page |-> Roster2, util_page |-> Summary2]
      [] sheet = "f3" -> [employee_page |-> Roster3, util_page |-> Summary3]
      [] sheet = "f4" -> [employee_page |-> Roster4, util_page |-> Summary4]
      [] sheet = "f5" -> [employee_page |-> Roster5, util_page |-> Summary5]
      [] sheet = "f6" -> [employee_page |-> Roster6, util_page |-> Summary6]

\* What main extracts from each file: Extract depends on the file alone.
Extracted == [f \in Files \cup MetricFiles |-> Extract(read_excel(f))]

(***************************************************************************)
(* scripts/section_reader.py: a stand-alone script that reads one page     *)
(* (page2.xlsx) and appends section and firm records to the database of    *)
(* its own project directory.  Its statements run at module level, so a    *)
(* loop variable keeps its last value after the loop, and a name no loop   *)
(* iteration bound raises NameError where it is first read.                *)
(***************************************************************************)
\* The rows (1-based) that hold a 'For the period' cell.
PeriodRows(page) == {r \in 1..Len(page.rows) : FirstPeriodCell(page.rows[r]) # 0}

\* The script's period loop: break leaves the inner loop only, so every
\* matching row assigns period_end and the last one stays.
script_period_end(page) ==
    IF \E r \in PeriodRows(page) :
          IndexOf(page.rows[r][FirstPeriodCell(page.rows[r])].s, "-") < 0
    THEN Raise("ValueError")
    ELSE IF PeriodRows(page) = {} THEN Raise("NameError")
    ELSE LET r == CHOOSE r \in PeriodRows(page) : \A q \in PeriodRows(page) : q <= r
             i == page.rows[r][FirstPeriodCell(page.rows[r])].s
         IN  Ok(Str(SliceFrom(i, IndexOf(i, "-") + 2)))

\* col_name_idx[val] = i for the non-null cells of the header row: the raw
\* header is the key.
RECURSIVE script_columns(_, _, _)
script_columns(column_names, i, col_name_idx) ==
    IF i >= Len(column_names) THEN col_name_idx
    ELSE script_columns(column_names, i + 1,
                        IF notna(column_names[i + 1])
                        THEN DictSet(col_name_idx, column_names[i + 1], i)
                        ELSE col_name_idx)

\* The firm dicts are filled from week_row, mtd_row and ytd_row, the
\* variables of the section loop, which hold the rows below the last
\* section label; firm_week_row, firm_mtd_row and firm_ytd_row are
\* assigned and not read.
ScriptFirmLabel(section_rows) == section_rows[Len(section_rows)][2]

\* The script up to its first to_sql call.
section_reader(page) ==
    LET period_end == script_period_end(page)
        section_rows == get_sections_from(page, 0, <<>>)
        company_row == get_firm_totals(page)
        col_name_idx == script_columns(iloc(page, FirmHeaderRow), 0, <<>>)
        cols == DictKeys(col_name_idx)
        when == to_datetime(period_end.val)
        firm == << <<period_end.val, ScriptFirmLabel(section_rows)>> >>
    IN  IF period_end.err = "ValueError" THEN Failed("period", period_end)
        ELSE IF ~HasRow(page, FirmHeaderRow) THEN Failed("columns", Raise("IndexError"))
        ELSE IF ~BlocksInPage(page, section_rows)
             THEN Failed("section data", Raise("IndexError"))
        ELSE IF period_end.err # "" THEN Failed("section frames", period_end)
        ELSE IF when.err # "" THEN Failed("section frames", when)
        ELSE IF company_row.err # "" THEN Failed("firm data", Raise("NameError"))
        ELSE IF ~HasRow(page, company_row.val + 3)
             THEN Failed("firm data", Raise("IndexError"))
        ELSE IF Len(col_name_idx) > 0 /\ Len(section_rows) = 0
             THEN Failed("firm data", Raise("NameError"))
        ELSE [err |-> "", at |-> "",
              period_end |-> period_end.val,
              section_week_df |->
                 SetColumn(from_dict(BlockDict(page, section_rows, col_name_idx, 1), cols),
                           Str(period_ending), when.val),
              section_mtd_df |->
                 SetColumn(from_dict(BlockDict(page, section_rows, col_name_idx, 2), cols),
                           Str(period_ending), when.val),
              section_ytd_df |->
                 SetColumn(from_dict(BlockDict(page, section_rows, col_name_idx, 3), cols),
                           Str(period_ending), when.val),
              firm_week_df |-> from_dict(BlockDict(page, firm, col_name_idx, 1), cols),
              firm_mtd_df |-> from_dict(BlockDict(page, firm, col_name_idx, 2), cols),
              firm_ytd_df |-> from_dict(BlockDict(page, firm, col_name_idx, 3), cols)]

\* page2.xlsx holds the firm page of one of the files.
ScriptPage(f) == read_excel(f).util_page
ScriptFrames == [f \in Files |-> section_reader(ScriptPage(f))]

\* The tables the script writes, in the order of its to_sql calls.
ScriptOrder ==
    << "section_week", "section_mtd", "section_ytd",
       "firm_week", "firm_mtd", "firm_ytd" >>
ScriptTables == {ScriptOrder[j] : j \in 1..Len(ScriptOrder)}

ScriptFrame(fr, t) ==
    CASE t = "section_week" -> fr.section_week_df
      [] t = "section_mtd" -> fr.section_mtd_df
      [] t = "section_ytd" -> fr.section_ytd_df
      [] t = "firm_week" -> fr.firm_week_df
      [] t = "firm_mtd" -> fr.firm_mtd_df
      [] t = "firm_ytd" -> fr.firm_ytd_df

(***************************************************************************)
(* The state: the two directories, the SQLite database, and the position   *)
(* of main() with the locals of the call it is in.                         *)
(***************************************************************************)
VARIABLES
    raw,            \* the files in data/raw
    processed,      \* the files in data/processed
    db,             \* table name -> the rows of the table, in insertion order
    tables,         \* the tables that exist in the database
    pc,             \* where main is: idle, extract, write, clean_up, crashed
    sheets,         \* main's listing of data/raw
    cur,            \* position in sheets of the sheet being handled (1-based)
    frames,         \* the frames main extracted from the current sheet
    step,           \* write_data: 0 reads the ids, k >= 1 is the k-th to_sql call
    existing_ids,   \* write_data's local of that name
    crash,          \* the call of main that raised, and what it raised
    calls,          \* history: one entry per write_data call, in call order
    drops,          \* history: files delivered to data/raw so far
    faults,         \* history: rejected writes and moves so far
    page2,          \* section_reader: the file whose firm page page2.xlsx holds
    s_pc,           \* section_reader: ready, extract, write, done, crashed
    s_step,         \* section_reader: the to_sql call it is at
    s_db,           \* section_reader: the tables of its database
    s_crash,        \* section_reader: the statement that raised
    s_events,       \* history: runs of section_reader and rejected writes
    u_pc,           \* a single call of an extraction function: which, and whether made
    u_in,           \* the page the call is given
    u_out,          \* what the call returned or raised
    w_pc,           \* two concurrent write_data calls: idle, write, done (per writer)
    w_sheet,        \* the file each writer carries
    w_step,         \* each writer's position in write_data (as step)
    w_ids,          \* each writer's local existing_ids
    w_db,           \* the database the two writers share
    w_tables,       \* the tables that exist in it
    w_raced         \* history: a writer read the ids while the other was
                    \* between its read and its employee append

vars == <<raw, processed, db, tables, pc, sheets, cur, frames, step,
          existing_ids, crash, calls, drops, faults>>
script == <<page2, s_pc, s_step, s_db, s_crash, s_events>>
unit == <<u_pc, u_in, u_out>>
writers == <<w_pc, w_sheet, w_step, w_ids, w_db, w_tables, w_raced>>
all == <<vars, script, unit, writers>>

\* Bound of the model: the events of the environment, which are the
\* deliveries of files and the rejections by the storage or the file system.
MaxEvents == 3

\* Variant of WriteOrder with the employee upsert after the employee facts.
WriteOrder_FactsFirst ==
    << "employee_week", "employee_mtd", "employee_ytd",
       "employee",
       "section_week", "section_mtd", "section_ytd",
       "firm_week", "firm_mtd", "firm_ytd" >>

\* The tables write_data writes, in the order of its to_sql calls: the
\* employee upsert, then the nine fact appends.
WriteOrder ==
    << "employee",
       "employee_week", "employee_mtd", "employee_ytd",
       "section_week", "section_mtd", "section_ytd",
       "firm_week", "firm_mtd", "firm_ytd" >>
AllTables == {WriteOrder[j] : j \in 1..Len(WriteOrder)}
FactTables == AllTables \ {"employee"}

NoFrames == [err |-> "", at |-> "none"]
NoCrash == [at |-> "", err |-> ""]

\* Bound of the script's model: its runs and the rejections by its storage.
MaxScriptEvents == 3

\* The script's database starts empty and the script has not run.
InitScript ==
    /\ page2 = "none"
    /\ s_pc = "ready"
    /\ s_step = 0
    /\ s_db = [t \in ScriptTables |-> <<>>]
    /\ s_crash = NoCrash
    /\ s_events = 0

InitMain ==
    /\ raw = {}
    /\ processed = {}
    /\ db = [t \in AllTables |-> <<>>]
    /\ tables = {}
    /\ pc = "idle"
    /\ sheets = <<>>
    /\ cur = 0
    /\ frames = NoFrames
    /\ step = 0
    /\ existing_ids = {}
    /\ crash = NoCrash
    /\ calls = <<>>
    /\ drops = 0
    /\ faults = 0

\* No extraction call under test.
InitUnit ==
    /\ u_pc = "none"
    /\ u_in = <<>>
    /\ u_out = NoFrames

Writers == {1, 2}

\* No concurrent writers.
InitWriters ==
    /\ w_pc = [w \in Writers |-> "idle"]
    /\ w_sheet = [w \in Writers |-> "none"]
    /\ w_step = [w \in Writers |-> 0]
    /\ w_ids = [w \in Writers |-> {}]
    /\ w_db = [t \in AllTables |-> <<>>]
    /\ w_tables = {}
    /\ w_raced = FALSE

Init == InitMain /\ InitScript /\ InitUnit /\ InitWriters

\* The sheet main is handling.
sheet == sheets[cur]

\* os.listdir: the names in the directory, in an order the platform picks.
listdir(dir) ==
    {s \in [1..Cardinality(dir) -> dir] :
        \A a, b \in 1..Cardinality(dir) : a # b => s[a] # s[b]}

(***************************************************************************)
(* The environment delivers a file to data/raw between runs of main.       *)
(***************************************************************************)
DropFile(f) ==
    /\ pc \in {"idle", "crashed"}
    /\ f \notin raw
    /\ drops + faults < MaxEvents
    /\ raw' = raw \cup {f}
    /\ drops' = drops + 1
    /\ UNCHANGED <<processed, db, tables, pc, sheets, cur, frames, step,
                   existing_ids, crash, calls, faults>>
    /\ UNCHANGED <<script, unit, writers>>

(***************************************************************************)
(* main(): list data/raw, then handle the sheets one after the other.      *)
(***************************************************************************)
StartMain ==
    /\ pc \in {"idle", "crashed"}
    /\ raw # {}
    /\ \E listing \in listdir(raw) : sheets' = listing
    /\ cur' = 1
    /\ pc' = "extract"
    /\ crash' = NoCrash
    /\ frames' = NoFrames
    /\ step' = 0
    /\ existing_ids' = {}
    /\ UNCHANGED <<raw, processed, db, tables, calls, drops, faults>>
    /\ UNCHANGED <<script, unit, writers>>

\* An exception leaves main: nothing catches it.
Raises(at, err) ==
    /\ pc' = "crashed"
    /\ crash' = [at |-> at, err |-> err]
    /\ frames' = NoFrames
    /\ step' = 0
    /\ existing_ids' = {}

\* Reading the two pages and extracting the frames succeeds: main calls
\* write_data.
ExtractSheet ==
    /\ pc = "extract"
    /\ LET r == Extracted[sheet]
       IN  /\ r.err = ""
           /\ frames' = r
           /\ pc' = "write"
           /\ step' = 0
           /\ calls' = Append(calls, [sheet |-> sheet, upsert |-> FALSE, done |-> 0])
    /\ UNCHANGED <<raw, processed, db, tables, sheets, cur, existing_ids,
                   crash, drops, faults>>
    /\ UNCHANGED <<script, unit, writers>>

\* An extraction call raises.
ExtractRaises ==
    /\ pc = "extract"
    /\ LET r == Extracted[sheet]
       IN  /\ r.err # ""
           /\ Raises(r.at, r.err)
    /\ UNCHANGED <<raw, processed, db, tables, sheets, cur, calls, drops, faults>>
    /\ UNCHANGED <<script, unit, writers>>

(***************************************************************************)
(* write_data, one step per statement that reads or writes the database.   *)
(* Each to_sql call is one transaction of the storage: it appends all its  *)
(* rows or, when the storage rejects it, none, and then the exception      *)
(* leaves write_data and main.                                             *)
(***************************************************************************)
rename_mapping ==
    << << <<"d","i","r","e","c","t","\n","h","o","u","r","s">>, direct >>,
       << <<"i","n","d","i","r","e","c","t","\n","h","o","u","r","s">>, indirect >>,
       << <<"h","o","u","r","s","\n","h","o","u","r","s">>, hours >> >>
rename_section ==
    << << <<"d","i","r","e","c","t","\n","a","m","o","u","n","t">>, direct >>,
       << <<"i","n","d","i","r","e","c","t","\n","a","m","o","u","n","t">>, indirect >>,
       << <<"t","o","t","a","l","\n","a","m","o","u","n","t">>, total >> >>

\* The frame write_data appends to fact table t, after the renames.
TableFrame(fr, t) ==
    CASE t = "employee_week" -> rename(fr.emp_week_df, rename_mapping)
      [] t = "employee_mtd" -> rename(fr.emp_mtd_df, rename_mapping)
      [] t = "employee_ytd" -> rename(fr.emp_ytd_df, rename_mapping)
      [] t = "section_week" -> rename(fr.sec_week_df, rename_section)
      [] t = "section_mtd" -> rename(fr.sec_mtd_df, rename_section)
      [] t = "section_ytd" -> rename(fr.sec_ytd_df, rename_section)
      [] t = "firm_week" -> rename(fr.firm_week_df, rename_section)
      [] t = "firm_mtd" -> rename(fr.firm_mtd_df, rename_section)
      [] t = "firm_ytd" -> rename(fr.firm_ytd_df, rename_section)

\* Variant of new_employees without the filter: every incoming employee.
new_employees_Unfiltered(employee_df, ids) == employee_df

\* employee_df[~employee_df.index.isin(existing_ids)]
\* Variant: the new rows are dropped, so the employee table is never written.
new_employees_Dropped(employee_df, ids) ==
    [employee_df EXCEPT !.index = <<>>, !.data = <<>>]

new_employees(employee_df, ids) ==
    LET keep == {r \in 1..Len(employee_df.index) : employee_df.index[r] \notin ids}
        pick[n \in 0..Len(employee_df.index)] ==
            IF n = 0 THEN <<>>
            ELSE IF n \in keep THEN Append(pick[n - 1], n) ELSE pick[n - 1]
        rows == pick[Len(employee_df.index)]
    IN  Frame([k \in 1..Len(rows) |-> employee_df.index[rows[k]]],
              employee_df.columns,
              [k \in 1..Len(rows) |-> employee_df.data[rows[k]]])

\* The set of ids read from the employee table; reading a table that does
\* not exist raises, and the handler makes the set empty.
read_ids(database, existing) ==
    IF "employee" \in existing
    THEN {database["employee"][r].key : r \in 1..Len(database["employee"])}
    ELSE {}

\* Variant of StepRows with a duplicate-period guard: a fact row whose
\* (entity, period_ending) the table already holds is skipped.
StepRows_Guarded(fr, t, ids) ==
    IF t = "employee"
    THEN FrameRows(new_employees(fr.employee_df, ids))
    ELSE LET rows == FrameRows(TableFrame(fr, t))
             fresh == {r \in 1..Len(rows) :
                         \A q \in 1..Len(db[t]) :
                            \/ db[t][q].key # rows[r].key
                            \/ Field(db[t][q], period_ending) # Field(rows[r], period_ending)}
             pick[n \in 0..Len(rows)] ==
                 IF n = 0 THEN <<>>
                 ELSE IF n \in fresh THEN Append(pick[n - 1], rows[n]) ELSE pick[n - 1]
         IN  pick[Len(rows)]

\* The rows the step's to_sql call appends.
StepRows(fr, t, ids) ==
    IF t = "employee"
    THEN FrameRows(new_employees(fr.employee_df, ids))
    ELSE FrameRows(TableFrame(fr, t))

\* Whether the step calls to_sql at all: the upsert skips the call when
\* there is no new employee.
StepWrites(fr, t, ids) ==
    t # "employee" \/ Len(new_employees(fr.employee_df, ids).index) > 0

\* The history of the running call after the step on table t.
Logged(log, t) ==
    [log EXCEPT ![Len(log)] =
        IF t = "employee" THEN [@ EXCEPT !.upsert = TRUE]
        ELSE [@ EXCEPT !.done = @ + 1]]

WD_ReadIds ==
    /\ pc = "write"
    /\ step = 0
    /\ existing_ids' = read_ids(db, tables)
    /\ step' = 1
    /\ UNCHANGED <<raw, processed, db, tables, pc, sheets, cur, frames,
                   crash, calls, drops, faults>>
    /\ UNCHANGED <<script, unit, writers>>

WD_Write ==
    /\ pc = "write"
    /\ step \in 1..Len(WriteOrder)
    /\ LET t == WriteOrder[step]
       IN  /\ db' = [db EXCEPT ![t] = @ \o StepRows(frames, t, existing_ids)]
           /\ tables' = IF StepWrites(frames, t, existing_ids)
                        THEN tables \cup {t} ELSE tables
           /\ calls' = Logged(calls, t)
    /\ IF step < Len(WriteOrder)
       THEN /\ step' = step + 1
            /\ UNCHANGED <<pc, existing_ids>>
       ELSE /\ step' = 0
            /\ pc' = "clean_up"
            /\ existing_ids' = {}
    /\ UNCHANGED <<raw, processed, sheets, cur, frames, crash, drops, faults>>
    /\ UNCHANGED <<script, unit, writers>>

\* The storage rejects the step's to_sql call.
WD_Rejected ==
    /\ pc = "write"
    /\ step \in 1..Len(WriteOrder)
    /\ StepWrites(frames, WriteOrder[step], existing_ids)
    /\ drops + faults < MaxEvents
    /\ faults' = faults + 1
    /\ Raises("write_data", "OperationalError")
    /\ UNCHANGED <<raw, processed, db, tables, sheets, cur, calls, drops>>
    /\ UNCHANGED <<script, unit, writers>>

(***************************************************************************)
(* clean_up: shutil.move of the sheet from data/raw to data/processed,     *)
(* then the next sheet of the listing, or the end of main.                 *)
(***************************************************************************)
clean_up ==
    /\ pc = "clean_up"
    /\ raw' = raw \ {sheet}
    /\ processed' = processed \cup {sheet}
    /\ frames' = NoFrames
    /\ IF cur < Len(sheets)
       THEN /\ cur' = cur + 1
            /\ pc' = "extract"
            /\ UNCHANGED sheets
       ELSE /\ cur' = 0
            /\ pc' = "idle"
            /\ sheets' = <<>>
    /\ UNCHANGED <<db, tables, step, existing_ids, crash, calls, drops, faults>>
    /\ UNCHANGED <<script, unit, writers>>

\* The move raises (the file is locked, the destination is not writable).
clean_up_raises ==
    /\ pc = "clean_up"
    /\ drops + faults < MaxEvents
    /\ faults' = faults + 1
    /\ Raises("clean_up", "OSError")
    /\ UNCHANGED <<raw, processed, db, tables, sheets, cur, calls, drops>>
    /\ UNCHANGED <<script, unit, writers>>

Next ==
    \/ \E f \in Files : DropFile(f)
    \/ StartMain
    \/ ExtractSheet
    \/ ExtractRaises
    \/ WD_ReadIds
    \/ WD_Write
    \/ WD_Rejected
    \/ clean_up
    \/ clean_up_raises

Spec == Init /\ [][Next]_all

\* The same program with the intake directory receiving the files of
\* MetricFiles.
NextMetric ==
    \/ \E f \in MetricFiles : DropFile(f)
    \/ StartMain
    \/ ExtractSheet
    \/ ExtractRaises
    \/ WD_ReadIds
    \/ WD_Write
    \/ WD_Rejected
    \/ clean_up
    \/ clean_up_raises

SpecMetric == Init /\ [][NextMetric]_all

(***************************************************************************)
(* The runs of section_reader.py.                                          *)
(***************************************************************************)
\* A run of the script starts, page2.xlsx holding the firm page of file f.
ScriptRun(f) ==
    /\ s_pc \in {"ready", "done", "crashed"}
    /\ s_events < MaxScriptEvents
    /\ s_events' = s_events + 1
    /\ page2' = f
    /\ s_pc' = "extract"
    /\ s_crash' = NoCrash
    /\ UNCHANGED <<s_step, s_db>>
    /\ UNCHANGED <<vars, unit, writers>>

\* The statements before the writes run through.
ScriptExtract ==
    /\ s_pc = "extract"
    /\ ScriptFrames[page2].err = ""
    /\ s_pc' = "write"
    /\ s_step' = 1
    /\ UNCHANGED <<page2, s_db, s_crash, s_events>>
    /\ UNCHANGED <<vars, unit, writers>>

\* One of them raises and the script ends.
ScriptRaises ==
    /\ s_pc = "extract"
    /\ ScriptFrames[page2].err # ""
    /\ s_pc' = "crashed"
    /\ s_crash' = [at |-> ScriptFrames[page2].at, err |-> ScriptFrames[page2].err]
    /\ UNCHANGED <<page2, s_step, s_db, s_events>>
    /\ UNCHANGED <<vars, unit, writers>>

\* The next to_sql call of the script appends its frame.
ScriptWrite ==
    /\ s_pc = "write"
    /\ LET t == ScriptOrder[s_step]
       IN  s_db' = [s_db EXCEPT ![t] = @ \o FrameRows(ScriptFrame(ScriptFrames[page2], t))]
    /\ IF s_step < Len(ScriptOrder)
       THEN s_step' = s_step + 1 /\ UNCHANGED s_pc
       ELSE s_step' = 0 /\ s_pc' = "done"
    /\ UNCHANGED <<page2, s_crash, s_events>>
    /\ UNCHANGED <<vars, unit, writers>>

\* The storage rejects the next to_sql call and the script ends.
ScriptRejected ==
    /\ s_pc = "write"
    /\ s_events < MaxScriptEvents
    /\ s_events' = s_events + 1
    /\ s_pc' = "crashed"
    /\ s_step' = 0
    /\ s_crash' = [at |-> "to_sql", err |-> "OperationalError"]
    /\ UNCHANGED <<page2, s_db>>
    /\ UNCHANGED <<vars, unit, writers>>

NextScript ==
    \/ \E f \in Files : ScriptRun(f)
    \/ ScriptExtract
    \/ ScriptRaises
    \/ ScriptWrite
    \/ ScriptRejected

SpecScript == Init /\ [][NextScript]_all

(***************************************************************************)
(* Vocabulary of the properties.                                           *)
(***************************************************************************)
\* The employee ids a table or frame holds.
TableIds(rows) == {rows[r].key : r \in 1..Len(rows)}
FrameIds(df) == {df.index[r] : r \in 1..Len(df.index)}

\* The calls of write_data made for file f so far.
CallsOf(f) == {c \in 1..Len(calls) : calls[c].sheet = f}

\* A call that went through all its to_sql calls.
Completed(c) == calls[c].upsert /\ calls[c].done = Len(WriteOrder) - 1

\* The call is still inside write_data.
Running(c) == c = Len(calls) /\ pc = "write"

\* The number of fact tables at or before t in the order of the to_sql calls.
FactIndex ==
    [t \in FactTables |->
        Cardinality({j \in 1..Len(WriteOrder) :
                        /\ WriteOrder[j] \in FactTables
                        /\ j <= (CHOOSE i \in 1..Len(WriteOrder) : WriteOrder[i] = t)})]

\* Call c has appended its frame to fact table t.
Reached(c, t) == calls[c].done >= FactIndex[t]

\* The records of file f for fact table t, as write_data appends them.
Incoming ==
    [f \in Files |->
        [t \in FactTables |->
            IF Extracted[f].err = "" THEN FrameRows(TableFrame(Extracted[f], t)) ELSE <<>>]]

\* The rows with the entity and period of row x among rows.
SamePeriodRows(rows, x) ==
    {r \in 1..Len(rows) :
        /\ rows[r].key = x.key
        /\ Field(rows[r], period_ending) = Field(x, period_ending)}

\* At most one row per (entity identifier, period_ending).
UniquePerPeriod(rows) ==
    \A a, b \in 1..Len(rows) :
        (/\ rows[a].key = rows[b].key
         /\ Field(rows[a], period_ending) = Field(rows[b], period_ending)) => a = b

\* a is a prefix of b
IsPrefix(a, b) == Len(a) <= Len(b) /\ SubSeq(b, 1, Len(a)) = a

(***************************************************************************)
(* C1.  The employee table holds at most one row per employee_id; once a   *)
(* call's upsert is over every incoming id is in the table; and the rows   *)
(* of the table are never changed or deleted: the table only grows at its  *)
(* end.                                                                    *)
(***************************************************************************)
C1_OneRowPerId ==
    \A a, b \in 1..Len(db["employee"]) :
        db["employee"][a].key = db["employee"][b].key => a = b

C1_IncomingPersisted ==
    \A c \in 1..Len(calls) :
        calls[c].upsert =>
            FrameIds(Extracted[calls[c].sheet].employee_df) \subseteq TableIds(db["employee"])

C1_EmployeeUpsert ==
    /\ [](C1_OneRowPerId /\ C1_IncomingPersisted)
    /\ [][IsPrefix(db["employee"], db'["employee"])]_vars

\* The spec's example: a file with 1001, then a file with 1001 and 1002, and
\* the table holds 1001 and 1002 once each, 1001's row being the first file's.
C1_Witness ==
    /\ Len(calls) = 2
    /\ calls[1].sheet = "f1" /\ calls[2].sheet = "f2"
    /\ Completed(1) /\ Completed(2)
    /\ db["employee"] = FrameRows(Extracted["f1"].employee_df)
                         \o SubSeq(FrameRows(Extracted["f2"].employee_df), 2, 2)
    /\ Len(db["employee"]) = 2

(***************************************************************************)
(* C2.  The fact writes are unconditional appends.  In every state each    *)
(* fact table is the concatenation, in call order, of the frames of the    *)
(* calls that reached it.  In every step, the to_sql call of a fact table  *)
(* appends the whole incoming frame, whatever the table already holds: the *)
(* table grows by the number of incoming records and every incoming        *)
(* (entity, period_ending) gains exactly one row, so a second call with    *)
(* the same records leaves two rows per pair; no other step changes the    *)
(* table.                                                                  *)
(***************************************************************************)
RECURSIVE Appended(_, _)
Appended(t, n) ==
    IF n = 0 THEN <<>>
    ELSE Appended(t, n - 1)
            \o (IF Reached(n, t)
                THEN Incoming[calls[n].sheet][t]
                ELSE <<>>)

\* The step is the running call's to_sql on fact table t.
WritesTo(t) ==
    /\ calls # <<>>
    /\ Len(calls') = Len(calls)
    /\ calls[Len(calls)].done < FactIndex[t]
    /\ calls'[Len(calls)].done >= FactIndex[t]

C2_StepAppendsAll ==
    \A t \in FactTables :
        IF WritesTo(t)
        THEN LET in == Incoming[calls[Len(calls)].sheet][t]
             IN  /\ db'[t] = db[t] \o in
                 /\ Len(db'[t]) = Len(db[t]) + Len(in)
                 /\ \A r \in 1..Len(in) :
                       Cardinality(SamePeriodRows(db'[t], in[r])) =
                          Cardinality(SamePeriodRows(db[t], in[r])) + 1
        ELSE db'[t] = db[t]

C2_UnconditionalAppend ==
    /\ [](\A t \in FactTables : db[t] = Appended(t, Len(calls)))
    /\ [][C2_StepAppendsAll]_vars

\* The same file loaded twice: two rows per (entity, period_ending) in each
\* of the nine fact tables.
C2_Witness ==
    /\ Len(calls) = 2
    /\ calls[1].sheet = "f1" /\ calls[2].sheet = "f1"
    /\ Completed(1) /\ Completed(2)
    /\ \A t \in FactTables :
          /\ Len(db[t]) = 2
          /\ Cardinality(SamePeriodRows(db[t], db[t][1])) = 2

(***************************************************************************)
(* C3.  Uniqueness of (entity identifier, period_ending) in the window     *)
(* tables.                                                                 *)
(***************************************************************************)
WindowsUnique == \A t \in FactTables : UniquePerPeriod(db[t])

FilePeriod ==
    [f \in Files |->
        IF Extracted[f].err = "" THEN to_datetime(Extracted[f].period_end).val ELSE NaT]

\* The period_ending a call attaches to its records.
PeriodOf(c) == FilePeriod[calls[c].sheet]

UpsertDone(c) ==
    /\ calls[c].upsert
    /\ FrameIds(Extracted[calls[c].sheet].employee_df) \subseteq TableIds(db["employee"])

C4_UpsertBeforeFacts ==
    /\ [](\A c \in 1..Len(calls) : calls[c].done > 0 => UpsertDone(c))
    /\ [][(\E t \in FactTables : db'[t] # db[t])
             => (pc = "write" /\ UpsertDone(Len(calls)))]_vars

\* A call between its upsert and its last append, with employees upserted
\* and fact rows written.
C4_Witness ==
    /\ pc = "write"
    /\ calls[Len(calls)].sheet = "f2"
    /\ calls[Len(calls)].done \in 1..(Len(WriteOrder) - 2)
    /\ Len(db["employee"]) = 2
    /\ Len(db["employee_week"]) = 2

(***************************************************************************)
(* C5.  A file whose page lacks a required marker never reaches            *)
(* write_data: its ingestion aborts first, so write_data never runs with   *)
(* a missing period end or an empty employee set.                          *)
(***************************************************************************)
MarkersPresent(f) ==
    LET s == read_excel(f)
    IN  /\ \E k \in 1..Len(s.employee_page.columns) :
              Contains(s.employee_page.columns[k], ForThePeriod)
        /\ \E r \in 1..Len(s.employee_page.rows) :
              CellContains(s.employee_page.rows[r][1], EmployeeNumber)
        /\ \E r \in 1..Len(s.util_page.rows) :
              CellContains(s.util_page.rows[r][1], FinalTotals)

C5_MissingMarkerAborts ==
    /\ \A c \in 1..Len(calls) : MarkersPresent(calls[c].sheet)
    /\ pc = "write" =>
          /\ frames.period_end.t = "str"
          /\ Len(frames.employee_df.index) > 0

(***************************************************************************)
(* C6.  Each file is an isolated unit of work: when main ends because one  *)
(* file failed, every other file of its listing has been loaded and moved  *)
(* out of data/raw.                                                        *)
(***************************************************************************)
C6_FilesIsolated ==
    pc = "crashed" => \A k \in 1..Len(sheets) : k # cur => sheets[k] \notin raw

(***************************************************************************)
(* C7.  No partial commit: a call of write_data that is over has appended  *)
(* to all nine fact tables or to none.                                     *)
(***************************************************************************)
C7_NoPartialCommit ==
    \A c \in 1..Len(calls) :
        ~Running(c) => calls[c].done \in {0, Len(WriteOrder) - 1}

(***************************************************************************)
(* C8.  A file is in data/processed only after a write_data call for it    *)
(* completed; a file whose ingestion failed stays in data/raw; and a       *)
(* failed move is no ingestion failure: the rows of the file stay and the  *)
(* remaining files of the listing are still processed.                     *)
(***************************************************************************)
C8_MovedOnlyAfterLoad ==
    \A f \in processed : \E c \in CallsOf(f) : Completed(c)

C8_FailedStaysInRaw ==
    (pc = "crashed" /\ crash.at # "clean_up") => sheet \in raw

C8_MoveFailureNotFatal ==
    (pc = "crashed" /\ crash.at = "clean_up") =>
        /\ Completed(Len(calls))
        /\ \A k \in (cur + 1)..Len(sheets) : sheets[k] \notin raw

C8_MoveGatedByLoad ==
    /\ C8_MovedOnlyAfterLoad
    /\ C8_FailedStaysInRaw
    /\ C8_MoveFailureNotFatal

(***************************************************************************)
(* C10.  Only actual_pct of the weekly employee records is divided by 100; *)
(* every other persisted field is the raw cell.                            *)
(***************************************************************************)
RECURSIVE Pow10(_)
Pow10(k) == IF k = 0 THEN 1 ELSE 10 * Pow10(k - 1)

\* The label index, the column map, the page and the row offset behind the
\* records of file f in fact table t.
BlockSource(f, t) ==
    LET s == read_excel(f)
        offset == CASE t \in {"employee_week", "section_week", "firm_week"} -> 1
                    [] t \in {"employee_mtd", "section_mtd", "firm_mtd"} -> 2
                    [] t \in {"employee_ytd", "section_ytd", "firm_ytd"} -> 3
    IN  IF t \in {"employee_week", "employee_mtd", "employee_ytd"}
        THEN [page |-> s.employee_page, offset |-> offset,
              labels |-> get_employees(s.employee_page).val.employee_rows,
              columns |-> get_columns(s.employee_page).val]
        ELSE IF t \in {"section_week", "section_mtd", "section_ytd"}
        THEN [page |-> s.util_page, offset |-> offset,
              labels |-> get_sections(s.util_page).val,
              columns |-> get_firm_columns(s.util_page).val]
        ELSE [page |-> s.util_page, offset |-> offset,
              labels |-> << <<get_pay_period(s.employee_page).val,
                              get_firm_totals(s.util_page).val>> >>,
              columns |-> get_firm_columns(s.util_page).val]

\* v is the raw cell divided by 100 (raw = n / 10^e).
IsHundredth(v, cell) ==
    IF cell.t = "num"
    THEN v.t = "num" /\ v.n * Pow10(cell.e) * 100 = cell.n * Pow10(v.e)
    ELSE v = cell

\* The written row holds, for every mapped column, the raw cell of its
\* entity's block row; in employee_week the actual_pct cell divided by 100.
RowAsClaimed(row, f, t) ==
    LET b == BlockSource(f, t)
    IN  \E i \in 1..Len(b.labels) :
           /\ b.labels[i][1] = row.key
           /\ \A p \in 1..Len(b.columns) :
                 LET cell == iloc(b.page, b.labels[i][2] + b.offset)[b.columns[p][2] + 1]
                 IN  IF t = "employee_week" /\ b.columns[p][1] = actual_pct
                     THEN IsHundredth(row.vals[p], cell)
                     ELSE row.vals[p] = cell

\* The files all of whose records for table t are as claimed.
AsClaimed ==
    [f \in Files |->
        [t \in FactTables |->
            \A r \in 1..Len(Incoming[f][t]) : RowAsClaimed(Incoming[f][t][r], f, t)]]

IncomingSet ==
    [f \in Files |->
        [t \in FactTables |-> {Incoming[f][t][r] : r \in 1..Len(Incoming[f][t])}]]

C10_OnlyWeeklyActualScaled ==
    \A t \in FactTables :
        \A r \in 1..Len(db[t]) :
            \E c \in 1..Len(calls) :
                /\ Reached(c, t)
                /\ db[t][r] \in IncomingSet[calls[c].sheet][t]
                /\ AsClaimed[calls[c].sheet][t]

\* The spec's example: raw 87.5 is persisted as 0.875 in employee_week and
\* as 87.5 in employee_mtd.
C10_Witness ==
    /\ \E r \in 1..Len(db["employee_week"]) :
          /\ db["employee_week"][r].key = <<"1","0","0","1">>
          /\ Field(db["employee_week"][r], actual_pct) = [t |-> "num", s |-> <<>>, n |-> 875, e |-> 3]
          /\ Field(db["employee_week"][r], target_pct) = [t |-> "num", s |-> <<>>, n |-> 80, e |-> 0]
    /\ \E r \in 1..Len(db["employee_mtd"]) :
          /\ db["employee_mtd"][r].key = <<"1","0","0","1">>
          /\ Field(db["employee_mtd"][r], actual_pct) = [t |-> "num", s |-> <<>>, n |-> 875, e |-> 1]

(***************************************************************************)
(* C9.  Every record holds, for each mapped column k, the cells (R + 1, k) *)
(* (week), (R + 2, k) (month-to-date) and (R + 3, k) (year-to-date) below  *)
(* its entity's label row R, R being the 'Final Totals' row for the firm;  *)
(* in page_reader and in the section_reader script.                        *)
(***************************************************************************)
\* The label index, the column map and the row offset behind the records
\* the script writes to table t from the firm page of file f.
ScriptBlockSource(f, t) ==
    LET page == ScriptPage(f)
        offset == CASE t \in {"section_week", "firm_week"} -> 1
                    [] t \in {"section_mtd", "firm_mtd"} -> 2
                    [] t \in {"section_ytd", "firm_ytd"} -> 3
    IN  [page |-> page, offset |-> offset,
         columns |-> script_columns(iloc(page, FirmHeaderRow), 0, <<>>),
         labels |-> IF t \in {"section_week", "section_mtd", "section_ytd"}
                    THEN get_sections_from(page, 0, <<>>)
                    ELSE << <<script_period_end(page).val, get_firm_totals(page).val>> >>]

ScriptRowAsClaimed(row, f, t) ==
    LET b == ScriptBlockSource(f, t)
    IN  \E i \in 1..Len(b.labels) :
           /\ b.labels[i][1] = row.key
           /\ \A p \in 1..Len(b.columns) :
                 row.vals[p] = iloc(b.page, b.labels[i][2] + b.offset)[b.columns[p][2] + 1]

\* The files whose firm page the script reads through.
ScriptReads == {f \in Files : ScriptFrames[f].err = ""}

C9_BlockRowsVerbatim ==
    /\ \A t \in ScriptTables :
          \A r \in 1..Len(s_db[t]) :
             \E f \in ScriptReads : ScriptRowAsClaimed(s_db[t][r], f, t)
    /\ \A f \in ScriptReads :
          Extracted[f].err = "" => \A t \in FactTables : AsClaimed[f][t]

\* The part of C9 that holds of the script: its section records.
C9_ScriptSectionsVerbatim ==
    \A t \in {"section_week", "section_mtd", "section_ytd"} :
        \A r \in 1..Len(s_db[t]) :
            \E f \in ScriptReads : ScriptRowAsClaimed(s_db[t][r], f, t)

(***************************************************************************)
(* Single calls of the Column Resolver.  The header row is drawn from the  *)
(* rows of at most MaxHeaderCells cells over HeaderCells: an empty cell,   *)
(* headers of the two vocabularies ('Target' is in both, with different    *)
(* canonical names), headers of neither ('Direct ' slugs to the canonical  *)
(* name of 'Direct'), and a numeric cell.                                  *)
(***************************************************************************)
MaxHeaderCells == 3

HeaderCells ==
    { NaN,
      Str(<<"T","a","r","g","e","t">>),
      Str(<<"A","c","t","u","a","l">>),
      Str(<<"D","i","r","e","c","t">>),
      Str(<<"D","i","r","e","c","t"," ">>),
      Str(<<"T","a","r","g","e","t","\n","%">>),
      Str(<<" ","S","i","t","e"," ","V","i","s","i","t","s"," ">>),
      Num(2024, 0) }

HeaderRows == UNION {[1..n -> HeaderCells] : n \in 1..MaxHeaderCells}

\* A roster page whose header row (page.iloc[0]) is row.
RosterPageWith(row) == [columns |-> <<>>, rows |-> <<row>>]

\* A firm page whose header row (page.iloc[7]) is row.
FirmPageWith(row) ==
    [columns |-> <<>>,
     rows |-> [k \in 1..(FirmHeaderRow + 1) |->
                  IF k = FirmHeaderRow + 1 THEN row ELSE <<NaN>>]]

InitColumns ==
    /\ InitMain /\ InitScript /\ InitWriters
    /\ u_pc = "header"
    /\ u_in \in HeaderRows
    /\ u_out = NoFrames

Call_get_columns ==
    /\ u_pc = "header"
    /\ u_out' = get_columns(RosterPageWith(u_in))
    /\ u_pc' = "get_columns"
    /\ UNCHANGED <<u_in, vars, script, writers>>

Call_get_firm_columns ==
    /\ u_pc = "header"
    /\ u_out' = get_firm_columns(FirmPageWith(u_in))
    /\ u_pc' = "get_firm_columns"
    /\ UNCHANGED <<u_in, vars, script, writers>>

NextColumns ==
    \/ Call_get_columns
    \/ Call_get_firm_columns

SpecColumns == InitColumns /\ [][NextColumns]_all

(***************************************************************************)
(* C11.  Column Resolver.                                                  *)
(***************************************************************************)
\* The vocabulary table of the page type the call was made for.
VocabularyOf(which) == IF which = "get_columns" THEN EmployeeMapping ELSE FirmMapping

\* The name the claim gives a header text: the canonical name of the table,
\* or the trimmed, lower-cased, space-to-underscore slug.
ClaimedName(table, h) ==
    IF \E k \in 1..Len(table) : table[k][1] = h
    THEN table[CHOOSE k \in 1..Len(table) : table[k][1] = h][2]
    ELSE ReplaceSpaces(Lower(Strip(h)))

\* The returned mapping is the claimed one for the text cells of row: every
\* text cell's name is mapped to the last position that resolves to that
\* name, and nothing else is mapped.
MapsTextCells(table, row, map) ==
    LET text == {i \in 1..Len(row) : row[i].t = "str"}
    IN  /\ \A i \in text :
              /\ DictHas(map, ClaimedName(table, row[i].s))
              /\ LET same == {j \in text :
                                ClaimedName(table, row[j].s) = ClaimedName(table, row[i].s)}
                 IN  DictGet(map, ClaimedName(table, row[i].s)) =
                        (CHOOSE j \in same : \A q \in same : q <= j) - 1
        /\ \A k \in 1..Len(map) :
              \E i \in text : map[k][1] = ClaimedName(table, row[i].s)
        /\ \A k, q \in 1..Len(map) : map[k][1] = map[q][1] => k = q

MaxSheetRows == 3

PeriodCells ==
    { NaN,
      Str(<<"F","o","r"," ","t","h","e"," ","p","e","r","i","o","d"," ","1","/","1"," ","-"," ","1","/","7">>),
      Str(<<"F","o","r"," ","t","h","e"," ","p","e","r","i","o","d"," ","1","/","8"," ","-"," ","1","/","1","4">>),
      Str(<<"F","o","r"," ","t","h","e"," ","p","e","r","i","o","d"," ","1","/","7">>) }

PeriodSheets == UNION {[1..n -> [1..2 -> PeriodCells]] : n \in 1..MaxSheetRows}

HeaderText(cell) == IF cell.t = "str" THEN cell.s ELSE <<"U","n","n","a","m","e","d">>

SheetPage(grid) ==
    [columns |-> [k \in 1..Len(grid[1]) |-> HeaderText(grid[1][k])],
     rows |-> Tail(grid)]

InitPeriod ==
    /\ InitMain /\ InitScript /\ InitWriters
    /\ u_pc = "sheet"
    /\ u_in \in PeriodSheets
    /\ u_out = NoFrames

Call_get_pay_period ==
    /\ u_pc = "sheet"
    /\ u_out' = get_pay_period(SheetPage(u_in))
    /\ u_pc' = "get_pay_period"
    /\ UNCHANGED <<u_in, vars, script, writers>>

Call_get_firm_pay_period ==
    /\ u_pc = "sheet"
    /\ u_out' = get_firm_pay_period(SheetPage(u_in))
    /\ u_pc' = "get_firm_pay_period"
    /\ UNCHANGED <<u_in, vars, script, writers>>

\* The '#%% get corporate period' cell of section_reader.py.
Run_script_period ==
    /\ u_pc = "sheet"
    /\ u_out' = script_period_end(SheetPage(u_in))
    /\ u_pc' = "script_period_end"
    /\ UNCHANGED <<u_in, vars, script, writers>>

NextPeriod ==
    \/ Call_get_pay_period
    \/ Call_get_firm_pay_period
    \/ Run_script_period

SpecPeriod == InitPeriod /\ [][NextPeriod]_all

(***************************************************************************)
(* C12.  Period Extractor.                                                 *)
(***************************************************************************)
\* The texts a call looks at, in iteration order: the column headers for
\* get_pay_period, the cells of the grid row by row for the others.
RECURSIVE GridTexts(_)
GridTexts(rows) ==
    IF rows = <<>> THEN <<>>
    ELSE SelectSeq(Head(rows), LAMBDA c : c.t = "str") \o GridTexts(Tail(rows))

SearchSpace(which, page) ==
    IF which = "get_pay_period" THEN page.columns
    ELSE [k \in 1..Len(GridTexts(page.rows)) |-> GridTexts(page.rows)[k].s]

\* The positions of the texts that hold 'For the period'.
Matches(texts) == {k \in 1..Len(texts) : Contains(texts[k], ForThePeriod)}

\* All characters after position (first hyphen + 1) of the first match.
ClaimedPeriod(texts) ==
    LET first == texts[CHOOSE k \in Matches(texts) : \A j \in Matches(texts) : k <= j]
    IN  Str(SliceFrom(first, IndexOf(first, "-") + 2))

\* The claim's case: some text matches and every matching text has a hyphen.
HasPeriod(texts) ==
    /\ Matches(texts) # {}
    /\ \A k \in Matches(texts) : IndexOf(texts[k], "-") >= 0

\* C12 as claimed: each of the three extractors returns the text after the
\* first hyphen of the first text, in iteration order, that holds 'For the
\* period'; later matching texts do not change the result.
C12_FirstMatchReturned ==
    u_pc \in {"get_pay_period", "get_firm_pay_period", "script_period_end"} =>
        LET texts == SearchSpace(u_pc, SheetPage(u_in))
        IN  HasPeriod(texts) => u_out = Ok(ClaimedPeriod(texts))

\* The part of C12 that holds: get_pay_period on the column headers.
C12_HeadersFirstMatch ==
    u_pc = "get_pay_period" =>
        LET texts == SearchSpace(u_pc, SheetPage(u_in))
        IN  HasPeriod(texts) => u_out = Ok(ClaimedPeriod(texts))

\* get_firm_pay_period never returns a period.
C12_FirmPeriodIsNone ==
    u_pc = "get_firm_pay_period" => u_out \in {Ok(None), Raise("ValueError")}
(***************************************************************************)
(* Single calls of the Label Locator: get_employees and get_firm_totals.   *)
(* The first column of a page of at most MaxLabelRows rows is drawn over   *)
(* LabelCells: cells without a marker (empty, text, a number), two         *)
(* well-formed employee labels (the second with blanks around the name     *)
(* parts), an employee label whose name has no comma, one whose code is    *)
(* not numeric, and two cells that hold 'Final Totals'.                    *)
(***************************************************************************)
MaxLabelRows == 3

Label1001 == Str(<<"E","m","p","l","o","y","e","e"," ","N","u","m","b","e","r",":"," ","1","0","0","1"," ","D","o","e",","," ","J","a","n","e">>)
Label1002 == Str(<<"E","m","p","l","o","y","e","e"," ","N","u","m","b","e","r",":"," ","1","0","0","2"," "," ","R","o","e"," ",","," ","R","i","c","k"," ">>)
LabelNoComma == Str(<<"E","m","p","l","o","y","e","e"," ","N","u","m","b","e","r",":"," ","1","0","0","3"," ","P","o","e"," ","P","a","t">>)
LabelNoCode == Str(<<"E","m","p","l","o","y","e","e"," ","N","u","m","b","e","r",":"," ","T","B","D"," ","L","e","e",","," ","A","l">>)

UnrelatedCells == {NaN, Str(<<"W","e","e","k","l","y">>), Num(40, 0)}
LabelCells ==
    UnrelatedCells
        \cup {Label1001, Label1002, LabelNoComma, LabelNoCode}
        \cup {Str(<<"F","i","n","a","l"," ","T","o","t","a","l","s">>), Str(<<"P","r","i","o","r"," ","F","i","n","a","l"," ","T","o","t","a","l","s">>)}

FirstColumns == UNION {[1..n -> LabelCells] : n \in 1..MaxLabelRows}

\* The page whose rows hold the cells of col in their first column.
PageOfColumn(col) == [columns |-> <<>>, rows |-> [r \in 1..Len(col) |-> <<col[r]>>]]

InitLabels ==
    /\ InitMain /\ InitScript /\ InitWriters
    /\ u_pc = "column"
    /\ u_in \in FirstColumns
    /\ u_out = NoFrames

Call_get_employees ==
    /\ u_pc = "column"
    /\ u_out' = get_employees(PageOfColumn(u_in))
    /\ u_pc' = "get_employees"
    /\ UNCHANGED <<u_in, vars, script, writers>>

\* The same page with another unrelated cell in a row without the marker,
\* and get_employees called on it.
Recall_get_employees ==
    /\ u_pc = "get_employees"
    /\ \E r \in 1..Len(u_in) : \E c \in UnrelatedCells :
          /\ u_in[r] \in UnrelatedCells
          /\ c # u_in[r]
          /\ u_in' = [u_in EXCEPT ![r] = c]
          /\ u_out' = get_employees(PageOfColumn(u_in'))
    /\ UNCHANGED <<u_pc, vars, script, writers>>

Call_get_firm_totals ==
    /\ u_pc = "column"
    /\ u_out' = get_firm_totals(PageOfColumn(u_in))
    /\ u_pc' = "get_firm_totals"
    /\ UNCHANGED <<u_in, vars, script, writers>>

NextLabels ==
    \/ Call_get_employees
    \/ Recall_get_employees
    \/ Call_get_firm_totals

SpecLabels == InitLabels /\ [][NextLabels]_all

(***************************************************************************)
(* C13.  Label Locator for employees.                                      *)
(***************************************************************************)
\* What the claim expects of the two well-formed labels: the code, the
\* trimmed name, the last and the first name.
ExpectedRecord(cell) ==
    IF cell = Label1001
    THEN << Str(<<"D","o","e",","," ","J","a","n","e">>), Str(<<"D","o","e">>), Str(<<"J","a","n","e">>), Str(<<"1","0","0","1">>) >>
    ELSE << Str(<<"R","o","e"," ",","," ","R","i","c","k">>), Str(<<"R","o","e">>), Str(<<"R","i","c","k">>), Str(<<"1","0","0","2">>) >>

\* The rows (1-based) with the marker.
MarkerRows(col) == {r \in 1..Len(col) : CellContains(col[r], EmployeeNumber)}

\* The claim's case: the marker rows hold well-formed labels of pairwise
\* distinct codes.
DistinctWellFormed(col) ==
    /\ \A r \in MarkerRows(col) : col[r] \in {Label1001, Label1002}
    /\ \A r, q \in MarkerRows(col) : col[r] = col[q] => r = q

\* One entry per marker row: the code with the row's zero-based index in
\* the label index, the code with the record in the employee records.
OneEntryPerMarker(col, out) ==
    /\ Len(out.employee_rows) = Cardinality(MarkerRows(col))
    /\ Len(out.employee_df.index) = Cardinality(MarkerRows(col))
    /\ out.employee_df.columns = EmployeeColumns
    /\ \A r \in MarkerRows(col) :
          /\ \E k \in 1..Len(out.employee_rows) :
                out.employee_rows[k] = <<ExpectedRecord(col[r])[4].s, r - 1>>
          /\ \E k \in 1..Len(out.employee_df.index) :
                /\ out.employee_df.index[k] = ExpectedRecord(col[r])[4].s
                /\ out.employee_df.data[k] = ExpectedRecord(col[r])

\* C13: for a page whose marker rows hold well-formed labels of pairwise
\* distinct codes, get_employees returns one label-index entry and one
\* employee record per marker row, keyed by the 4-character code, with the
\* row index and the trimmed name, last and first parts; and calling it
\* again after a row without the marker was changed returns the same.
C13_OneEntryPerMarkerRow ==
    /\ [](u_pc = "get_employees" /\ DistinctWellFormed(u_in) =>
             u_out.err = "" /\ OneEntryPerMarker(u_in, u_out.val))
    /\ [][u_pc = "get_employees" /\ u_pc' = "get_employees" => u_out' = u_out]_all

\* Markers at rows 0 and 2 around a row without the marker.
C13_Witness ==
    /\ u_pc = "get_employees"
    /\ u_in = <<Label1002, Str(<<"W","e","e","k","l","y">>), Label1001>>
    /\ u_out.err = ""
    /\ u_out.val.employee_rows = << <<<<"1","0","0","2">>, 0>>, <<<<"1","0","0","1">>, 2>> >>
    /\ u_out.val.employee_df.data[1] =
          << Str(<<"R","o","e"," ",","," ","R","i","c","k">>), Str(<<"R","o","e">>), Str(<<"R","i","c","k">>), Str(<<"1","0","0","2">>) >>

(***************************************************************************)
(* C15.  Malformed employee labels.                                        *)
(***************************************************************************)
\* C15 as claimed: a label that does not parse into a 4-character numeric
\* code and a 'Last, First' name is skipped; the call returns, and the
\* label index and the employee records hold exactly the codes of the
\* well-formed labels of the page.
C15_MalformedSkipped ==
    u_pc = "get_employees" =>
        /\ u_out.err = ""
        /\ LET codes == {ExpectedRecord(u_in[r])[4].s :
                            r \in {q \in MarkerRows(u_in) : u_in[q] \in {Label1001, Label1002}}}
           IN  /\ {u_out.val.employee_rows[k][1] : k \in 1..Len(u_out.val.employee_rows)} = codes
               /\ {u_out.val.employee_df.index[k] : k \in 1..Len(u_out.val.employee_df.index)} = codes

\* What the code does with the two malformed labels: a name without a comma
\* raises ValueError, and a code that is not numeric becomes a key.
C15_NoCommaRaises ==
    u_pc = "get_employees" /\ (\E r \in 1..Len(u_in) : u_in[r] = LabelNoComma) =>
        u_out = Raise("ValueError")

C15_NoCodeFabricated ==
    (/\ u_pc = "get_employees"
     /\ \E r \in 1..Len(u_in) : u_in[r] = LabelNoCode
     /\ \A r \in 1..Len(u_in) : u_in[r] # LabelNoComma) =>
        /\ u_out.err = ""
        /\ \E k \in 1..Len(u_out.val.employee_df.index) :
              u_out.val.employee_df.index[k] = <<"T","B","D"," ">>

(***************************************************************************)
(* C14.  Label Locator for the firm totals.                                *)
(***************************************************************************)
\* The rows (1-based) whose first cell holds 'Final Totals'.
TotalsRows(col) == {r \in 1..Len(col) : CellContains(col[r], FinalTotals)}

\* C14: when some row's first cell holds 'Final Totals', get_firm_totals
\* returns the zero-based index of the first such row in sheet order; the
\* rows after it, with or without the marker, do not affect the result.
C14_FirstTotalsRow ==
    u_pc = "get_firm_totals" /\ TotalsRows(u_in) # {} =>
        \E r \in TotalsRows(u_in) :
            /\ \A q \in TotalsRows(u_in) : r <= q
            /\ u_out = Ok(r - 1)

\* Two rows hold the marker; the first of them is returned.
C14_Witness ==
    /\ u_pc = "get_firm_totals"
    /\ u_in = <<Str(<<"W","e","e","k","l","y">>), Str(<<"P","r","i","o","r"," ","F","i","n","a","l"," ","T","o","t","a","l","s">>), Str(<<"F","i","n","a","l"," ","T","o","t","a","l","s">>)>>
    /\ u_out = Ok(1)
(***************************************************************************)
(* C16.  Every record appended to a fact table carries the period-end date *)
(* of the file it came from.                                               *)
(***************************************************************************)
\* The period-end date the script extracts from the page of file f.
ScriptPeriod(f) == to_datetime(script_period_end(ScriptPage(f)).val).val

\* C16 as claimed, for the script: every row of the six tables the script
\* writes has a period_ending column, and its value is the period-end date
\* extracted from the page the row came from.
C16_ScriptRecordsDated ==
    \A t \in ScriptTables :
        \A r \in 1..Len(s_db[t]) :
            /\ RowHas(s_db[t][r], Str(period_ending))
            /\ \E f \in Files :
                  /\ ScriptFrames[f].err = ""
                  /\ Field(s_db[t][r], Str(period_ending)) = ScriptPeriod(f)
                  /\ ScriptPeriod(f) # NaT

\* The same for the section tables of the script only.
C16_ScriptSectionsDated ==
    \A t \in {"section_week", "section_mtd", "section_ytd"} :
        \A r \in 1..Len(s_db[t]) :
            /\ RowHas(s_db[t][r], Str(period_ending))
            /\ \E f \in Files :
                  /\ ScriptFrames[f].err = ""
                  /\ Field(s_db[t][r], Str(period_ending)) = ScriptPeriod(f)

\* For page_reader: every row of the nine fact tables has a period_ending
\* column holding what pd.to_datetime makes of the period end of a call's
\* file.
C16_RecordsCarryFilePeriod ==
    \A t \in FactTables :
        \A r \in 1..Len(db[t]) :
            /\ RowHas(db[t][r], period_ending)
            /\ \E c \in 1..Len(calls) :
                  Field(db[t][r], period_ending) = PeriodOf(c)

\* For page_reader: that value is a date.
C16_RecordsDated ==
    \A t \in FactTables :
        \A r \in 1..Len(db[t]) : Field(db[t][r], period_ending) # NaT
(***************************************************************************)
(* Two write_data calls running at the same time on one database, each in  *)
(* its own process (main started twice).  write_data holds no lock: its    *)
(* read of the employee ids and each of its to_sql calls are separate      *)
(* operations of the database, and those of the two calls interleave in    *)
(* any order.                                                              *)
(***************************************************************************)
\* The files main gets as far as write_data with.
Loadable == {f \in Files : Extracted[f].err = ""}

\* The other writer.
Other(w) == CHOOSE o \in Writers : o # w

\* Writer w has read the ids and has not yet made its employee append.
InUpsert(w) == w_pc[w] = "write" /\ w_step[w] = 1

\* main of writer w calls write_data with the frames of file f.
W_Start(w, f) ==
    /\ w_pc[w] = "idle"
    /\ w_pc' = [w_pc EXCEPT ![w] = "write"]
    /\ w_sheet' = [w_sheet EXCEPT ![w] = f]
    /\ w_step' = [w_step EXCEPT ![w] = 0]
    /\ UNCHANGED <<w_ids, w_db, w_tables, w_raced>>
    /\ UNCHANGED <<vars, script, unit>>

W_ReadIds(w) ==
    /\ w_pc[w] = "write"
    /\ w_step[w] = 0
    /\ w_ids' = [w_ids EXCEPT ![w] = read_ids(w_db, w_tables)]
    /\ w_step' = [w_step EXCEPT ![w] = 1]
    /\ w_raced' = (w_raced \/ InUpsert(Other(w)))
    /\ UNCHANGED <<w_pc, w_sheet, w_db, w_tables>>
    /\ UNCHANGED <<vars, script, unit>>

W_Write(w) ==
    /\ w_pc[w] = "write"
    /\ w_step[w] \in 1..Len(WriteOrder)
    /\ LET t == WriteOrder[w_step[w]]
           fr == Extracted[w_sheet[w]]
       IN  /\ w_db' = [w_db EXCEPT ![t] = @ \o StepRows(fr, t, w_ids[w])]
           /\ w_tables' = IF StepWrites(fr, t, w_ids[w])
                          THEN w_tables \cup {t} ELSE w_tables
    /\ IF w_step[w] < Len(WriteOrder)
       THEN /\ w_step' = [w_step EXCEPT ![w] = @ + 1]
            /\ UNCHANGED <<w_pc, w_ids>>
       ELSE /\ w_step' = [w_step EXCEPT ![w] = 0]
            /\ w_pc' = [w_pc EXCEPT ![w] = "done"]
            /\ w_ids' = [w_ids EXCEPT ![w] = {}]
    /\ UNCHANGED <<w_sheet, w_raced>>
    /\ UNCHANGED <<vars, script, unit>>

NextWriters ==
    \/ \E w \in Writers : \E f \in Loadable : W_Start(w, f)
    \/ \E w \in Writers : W_ReadIds(w)
    \/ \E w \in Writers : W_Write(w)

SpecWriters == Init /\ [][NextWriters]_all

(***************************************************************************)
(* C17.  The race on the employee upsert.                                  *)
(***************************************************************************)
\* Two employee rows with one employee_id.
DuplicateEmployee ==
    \E a, b \in 1..Len(w_db["employee"]) :
        a # b /\ w_db["employee"][a].key = w_db["employee"][b].key

\* C17: two employee rows for one employee_id exist only if the two
\* write_data calls overlapped in their read-ids / append-new-employees
\* sequences (one read the ids while the other had read them and not yet
\* appended); when the calls are serialized the state is not reachable.
C17_DuplicateOnlyByRace == DuplicateEmployee => w_raced

\* Both writers carried file f1, both read an empty id set, both appended
\* employee 1001.
C17_Witness ==
    /\ DuplicateEmployee
    /\ w_sheet = [w \in Writers |-> "f1"]
    /\ w_pc = [w \in Writers |-> "done"]
    /\ Len(w_db["employee"]) = 2
    /\ w_raced
(***************************************************************************)
(* C18.  A metric field missing from the Column Map.                       *)
(***************************************************************************)
\* The roster of the sheet main is handling resolves target_pct and the
\* keys (period end, employee label) and has no actual_pct.
LacksActualPct(f) ==
    LET s == read_excel(f)
    IN  /\ get_columns(s.employee_page).err = ""
        /\ ~DictHas(get_columns(s.employee_page).val, actual_pct)
        /\ DictHas(get_columns(s.employee_page).val, target_pct)
        /\ get_pay_period(s.employee_page).val # None
        /\ Len(get_employees(s.employee_page).val.employee_rows) > 0

\* C18 as claimed: a file whose Column Map lacks the metric field
\* actual_pct and has its key fields does not make the run crash in the
\* extraction: main never ends with an exception raised while it extracts
\* such a file.
C18_MissingMetricTolerated ==
    ~(/\ pc = "crashed"
      /\ LacksActualPct(sheet)
      /\ crash.at \notin {"write_data", "clean_up"})

\* What the code does: get_employee_data raises KeyError for such a file,
\* and no write_data call is ever made for it.
C18_MissingMetricRaises ==
    /\ (pc = "crashed" /\ LacksActualPct(sheet)) =>
          crash = [at |-> "get_employee_data", err |-> "KeyError"]
    /\ \A c \in 1..Len(calls) : ~LacksActualPct(calls[c].sheet)
(***************************************************************************)
(* C19.  The employee fact tables and the employee table agree on the      *)
(* employee ids.                                                           *)
(***************************************************************************)
EmployeeFactTables == {"employee_week", "employee_mtd", "employee_ytd"}

\* Every employee_id of an employee fact table is in the employee table.
FactIdsKnown ==
    \A t \in EmployeeFactTables : TableIds(db[t]) \subseteq TableIds(db["employee"])

\* The rows the step appended to table t.
AppendedRows(t) == SubSeq(db'[t], Len(db[t]) + 1, Len(db'[t]))

\* A to_sql call on an employee fact table appends one record for each
\* employee_id of the file's employee frame and no other record.
StepOneRecordPerId ==
    \A t \in EmployeeFactTables :
        WritesTo(t) =>
            LET new == AppendedRows(t)
                ids == FrameIds(Extracted[calls[Len(calls)].sheet].employee_df)
            IN  /\ db'[t] = db[t] \o new
                /\ TableIds(new) = ids
                /\ Len(new) = Cardinality(ids)

\* The number of records call c appended to table t.
CallLen(c, t) == IF Reached(c, t) THEN Len(Incoming[calls[c].sheet][t]) ELSE 0

\* The records call c left in table t: the records at the positions the
\* call appended at, after those of the calls before it.
RowsOfCall(c, t) ==
    LET before[k \in 0..Len(calls)] ==
            IF k = 0 THEN 0 ELSE before[k - 1] + CallLen(k, t)
    IN  SubSeq(db[t], before[c - 1] + 1, before[c])

\* Call c gave the three employee fact tables the same ids, one record per
\* id in each.
SameIdsPerWindow(c) ==
    LET rows == [t \in EmployeeFactTables |-> RowsOfCall(c, t)]
    IN  \A t \in EmployeeFactTables :
            /\ TableIds(rows[t]) = TableIds(rows["employee_week"])
            /\ Len(rows[t]) = Cardinality(TableIds(rows[t]))
            /\ Len(rows[t]) = CallLen(c, t)

\* C19: in every state the employee_ids of employee_week, employee_mtd and
\* employee_ytd are all in the employee table (during a write_data call as
\* well as after it); every write_data call that went through all its writes
\* left the same set of employee ids in the three employee fact tables, with
\* one record per id in each; and each to_sql call on one of them appends
\* exactly one record per employee_id of the file.
C19_EmployeeIdsConsistent ==
    /\ [](/\ FactIdsKnown
          /\ \A c \in 1..Len(calls) : Completed(c) => SameIdsPerWindow(c))
    /\ [][StepOneRecordPerId]_vars

\* Two completed calls, of a file with employee 1001 and of a file with
\* employees 1001 and 1002: three records in each employee fact table, all
\* of employees the employee table holds.
C19_Witness ==
    /\ Len(calls) = 2
    /\ Completed(1) /\ Completed(2)
    /\ Cardinality(FrameIds(Extracted[calls[1].sheet].employee_df)) = 1
    /\ Cardinality(FrameIds(Extracted[calls[2].sheet].employee_df)) = 2
    /\ \A t \in EmployeeFactTables :
          /\ Len(db[t]) = 3
          /\ Cardinality(TableIds(db[t])) = 2
          /\ TableIds(db[t]) = TableIds(db["employee"])
=============================================================================
